---- MODULE Spec2Model ----
(***************************************************************************)
(* Model of the complaint-analysis engine AgenteIAMejorado                  *)
(* (src/src/agente_ia_simple/agente_ia_mejorado.py).                        *)
(*                                                                         *)
(* Texts are strings, read character by character: the character at        *)
(* position i of s is SubSeq(s, i, i).  Regular expressions are small      *)
(* syntax trees matched by a backtracking matcher with the semantics of    *)
(* Python's re module (leftmost match, alternatives in order, greedy       *)
(* repetition, non-overlapping findall).                                   *)
(*                                                                         *)
(* Scores that the code keeps as floats with halves (1.5 per keyword,      *)
(* 0.5 per specificity hit) are kept doubled, as exact integers.           *)
(***************************************************************************)
EXTENDS Integers, Sequences, FiniteSets, TLC

VARIABLES
    reloj,       \* the wall clock read by datetime.now()
    semilla,     \* the string-hash seed of the running interpreter
    entrada,     \* the argument of the last analizar_denuncia_completa call
    resultado,   \* what that call produced: a returned dict or an exception
    previa,      \* the argument of the call before it
    resultadoPrevio, \* what that earlier call produced
    relacion,    \* how entrada was derived from previa
    agente,      \* the attributes of the AgenteIAMejorado object that is called
    hilos,       \* the callers that run analizar_denuncia_completa at the same
                 \* time on that agent: for each, where it is in the body and
                 \* its local variables
    validacion, \* the last call of ValidadorEntrada.validar_opcion_menu and what it returned
    clasificador, \* the estadisticas of a ClasificadorSimplificado
    procesamiento, \* the last procesar_denuncia_completo call on it and what it returned
    gestor, \* the attributes of a GestorAgenteIASimplificado and of its agents
    gestion, \* the last call on the gestor and what it returned
    denuncias, \* GestorDenuncias.denuncias, the list of complaints in memory
    archivo, \* the JSON file archivo_datos
    registro, \* the last registrar_denuncia call and what it returned
    cambio, \* the last call on the GestorEstados: what it printed, what was typed
    roles, \* the attributes of the GestorRoles
    autenticacion \* the autenticar_administrador call that is running, or the last one

\* the state of the engine and of its callers
varsMotor == <<reloj, semilla, entrada, resultado, previa, resultadoPrevio, relacion, agente>>

\* the state of the callers that share the agent
varsHilos == <<hilos>>

\* the state of the other components of the application
varsAplicacion == <<validacion, clasificador, procesamiento, gestor, gestion, denuncias, archivo, registro, cambio, roles, autenticacion>>

\* all that a call of the engine by a caller of its own leaves alone
FueraDelMotor == <<varsHilos, varsAplicacion>>

\* all that a step of a caller that shares the agent leaves alone
FueraDeHilos == <<reloj, semilla, entrada, resultado, previa, resultadoPrevio, relacion, varsAplicacion>>

vars == <<varsMotor, varsHilos, varsAplicacion>>

(***************************************************************************)
(* Bounds of the model.                                                    *)
(***************************************************************************)
MaxPiezas == 2      \* pieces of vocabulary in a generated text
MaxReloj == 1       \* ticks of the clock
MaxSemilla == 1     \* hash seeds 0..MaxSemilla
MaxOpciones == 2    \* valid options in a menu
MaxProcesadas == 3  \* calls of procesar_denuncia_completo on one classifier
MaxDenuncias == 2   \* complaints in the list
MaxRegistros == 3   \* calls of registrar_denuncia
MaxCambios == 2     \* calls of _ejecutar_cambio_estado
MaxFallidos == 2    \* failed attempts on record when an authentication begins
MaxAcciones == 2    \* actions on record in a session

(***************************************************************************)
(* Characters and strings.                                                 *)
(***************************************************************************)
Caracteres(s) == {SubSeq(s, i, i) : i \in 1..Len(s)}

Min(a, b) == IF a <= b THEN a ELSE b

Mayusculas == "ABCDEFGHIJKLMNOPQRSTUVWXYZÁÉÍÓÚÑ"
Minusculas == "abcdefghijklmnopqrstuvwxyzáéíóúñ"
Digitos == Caracteres("0123456789")
Espacios == Caracteres(" \t\n")
CaracteresPalabra == Caracteres(Mayusculas) \cup Caracteres(Minusculas) \cup Digitos \cup {"_"}

\* str.lower() on one character
LowerCaracter(c) ==
    IF c \in Caracteres(Mayusculas)
    THEN LET i == CHOOSE j \in 1..Len(Mayusculas) : SubSeq(Mayusculas, j, j) = c
         IN  SubSeq(Minusculas, i, i)
    ELSE c

TablaLower == [c \in Caracteres(Mayusculas) |-> LowerCaracter(c)]

\* str.lower(), character by character (halving keeps the evaluation shallow)
RECURSIVE lower(_)
lower(s) ==
    IF Len(s) = 0 THEN ""
    ELSE IF Len(s) = 1 THEN (IF s \in DOMAIN TablaLower THEN TablaLower[s] ELSE s)
    ELSE LET mitad == Len(s) \div 2
         IN  lower(SubSeq(s, 1, mitad)) \o lower(SubSeq(s, mitad + 1, Len(s)))

\* sub == s[p : p + len(sub)]
Coincide(sub, s, p) ==
    /\ p + Len(sub) - 1 <= Len(s)
    /\ SubSeq(s, p, p + Len(sub) - 1) = sub

\* the positions 1..n as a sequence
Posiciones(n) == [i \in 1..n |-> i]

\* of the candidate matches <<start, end>>, sorted by start, the ones a
\* left-to-right scan keeps: each starts at or after the end of the one before
RECURSIVE SinSolape(_)
SinSolape(candidatos) ==
    IF Len(candidatos) = 0 THEN <<>>
    ELSE LET primero == Head(candidatos)
             sigue == IF primero[2] > primero[1] THEN primero[2] ELSE primero[1] + 1
         IN  <<primero>> \o SinSolape(SelectSeq(Tail(candidatos), LAMBDA c : c[1] >= sigue))

\* str.count(sub): non-overlapping occurrences, scanning from the left
count(s, sub) ==
    LET inicios == SelectSeq(Posiciones(Len(s)), LAMBDA p : Coincide(sub, s, p))
    IN  Len(SinSolape([i \in 1..Len(inicios) |-> <<inicios[i], inicios[i] + Len(sub)>>]))

\* the operator "sub in s"
Contiene(s, sub) == \E p \in 1..(Len(s) - Len(sub) + 1) : Coincide(sub, s, p)

\* str.split(): the maximal runs of non-whitespace characters
split(s) ==
    LET EsEspacio(p) == SubSeq(s, p, p) \in Espacios
        inicios == SelectSeq(Posiciones(Len(s)),
                             LAMBDA p : ~EsEspacio(p) /\ (p = 1 \/ EsEspacio(p - 1)))
        Final(p) == CHOOSE q \in p..Len(s) :
                        /\ \A r \in p..q : ~EsEspacio(r)
                        /\ (q = Len(s) \/ EsEspacio(q + 1))
    IN  [i \in 1..Len(inicios) |-> SubSeq(s, inicios[i], Final(inicios[i]))]

\* str.isupper(): at least one cased character and no lower-case one
isupper(s) ==
    /\ \E i \in 1..Len(s) : SubSeq(s, i, i) \in Caracteres(Mayusculas)
    /\ \A i \in 1..Len(s) : SubSeq(s, i, i) \notin Caracteres(Minusculas)

(***************************************************************************)
(* Regular expressions (Python re).                                        *)
(***************************************************************************)
\* \b
B == [t |-> "b"]
\* a literal string
Lit(s) == [t |-> "lit", s |-> s]
\* (r1|r2|...): each alternative is a sequence of nodes
Alt(ramas) == [t |-> "alt", a |-> ramas]
\* (w1|w2|...) with literal alternatives
O(palabras) == Alt([i \in 1..Len(palabras) |-> <<Lit(palabras[i])>>])
\* c{min,max}, greedy, over a character class; max = -1 is unbounded
Rep(clase, min, max) == [t |-> "rep", c |-> clase, min |-> min, max |-> max]
\* \b(w1|w2|...)\b
PalabraEntera(palabras) == <<B, O(palabras), B>>

\* \b holds before position p: exactly one neighbour is a word character
Borde(txt, p) ==
    LET antes == p > 1 /\ SubSeq(txt, p - 1, p - 1) \in CaracteresPalabra
        despues == p <= Len(txt) /\ SubSeq(txt, p, p) \in CaracteresPalabra
    IN  antes # despues

\* the length of the run of class characters starting at p, at most tope
Corrida(clase, txt, p, tope) ==
    LET limite == Min(tope, Len(txt) - p + 1)
        largos == {k \in 0..limite : \A j \in 0..(k - 1) : SubSeq(txt, p + j, p + j) \in clase}
    IN  CHOOSE k \in largos : \A m \in largos : m <= k

\* Fin(re, txt, p): the position after the match of re that starts at p,
\* as the backtracking matcher finds it first, or 0 when there is none.
RECURSIVE Fin(_, _, _)
RECURSIVE PrimeraRama(_, _, _, _, _)
RECURSIVE PrimeraRep(_, _, _, _, _)

PrimeraRama(ramas, i, resto, txt, p) ==
    IF i > Len(ramas) THEN 0
    ELSE LET e == Fin(ramas[i] \o resto, txt, p)
         IN  IF e # 0 THEN e ELSE PrimeraRama(ramas, i + 1, resto, txt, p)

PrimeraRep(n, k, resto, txt, p) ==
    IF k < n.min THEN 0
    ELSE LET e == Fin(resto, txt, p + k)
         IN  IF e # 0 THEN e ELSE PrimeraRep(n, k - 1, resto, txt, p)

Fin(re, txt, p) ==
    IF Len(re) = 0 THEN p
    ELSE LET n == Head(re)
             resto == Tail(re)
         IN  CASE n.t = "b" -> IF Borde(txt, p) THEN Fin(resto, txt, p) ELSE 0
               [] n.t = "lit" -> IF Coincide(n.s, txt, p)
                                 THEN Fin(resto, txt, p + Len(n.s)) ELSE 0
               [] n.t = "alt" -> PrimeraRama(n.a, 1, resto, txt, p)
               [] n.t = "rep" ->
                    PrimeraRep(n, Corrida(n.c, txt, p,
                                          IF n.max < 0 THEN Len(txt) ELSE n.max),
                               resto, txt, p)

\* re.findall(re, txt): the matches as <<start, end>> pairs, left to right,
\* non-overlapping
findall(re, txt) ==
    LET inicios == SelectSeq(Posiciones(Len(txt) + 1), LAMBDA p : Fin(re, txt, p) # 0)
    IN  SinSolape([i \in 1..Len(inicios) |-> <<inicios[i], Fin(re, txt, inicios[i])>>])

\* re.search(re, txt) is not None
search(re, txt) == \E p \in 1..(Len(txt) + 1) : Fin(re, txt, p) # 0

\* sum of the items of a sequence of numbers
RECURSIVE Suma(_)
Suma(ns) == IF Len(ns) = 0 THEN 0 ELSE Head(ns) + Suma(Tail(ns))

\* sum(len(re.findall(patron, txt)) for patron in patrones)
TotalCoincidencias(patrones, txt) ==
    Suma([i \in 1..Len(patrones) |-> Len(findall(patrones[i], txt))])

(***************************************************************************)
(* class NivelUrgencia, class TipoAlerta                                   *)
(***************************************************************************)
NivelUrgencia == [BAJA |-> 1, MEDIA |-> 2, ALTA |-> 3, CRITICA |-> 4, EMERGENCIA |-> 5]

TipoAlerta == [URGENCIA_CRITICA |-> "urgencia_critica",
               CONTENIDO_VIOLENTO |-> "contenido_violento",
               AMENAZA_DIRECTA |-> "amenaza_directa",
               SITUACION_RIESGO |-> "situacion_riesgo",
               EVIDENCIA_SOLIDA |-> "evidencia_solida"]

(***************************************************************************)
(* _inicializar_patrones                                                   *)
(***************************************************************************)
patrones_urgencia_critica == <<
    PalabraEntera(<<"emergencia", "urgente", "inmediato", "ya", "ahora", "rápido">>),
    PalabraEntera(<<"peligro", "amenaza", "riesgo", "violencia", "agresión">>),
    PalabraEntera(<<"socorro", "ayuda", "auxilio", "emergencia">>),
    PalabraEntera(<<"crítico", "grave", "serio", "importante">>) >>

patrones_violencia == <<
    PalabraEntera(<<"golpe", "pegar", "lastimar", "dañar", "herir">>),
    PalabraEntera(<<"amenaza", "intimidar", "acosar", "perseguir">>),
    PalabraEntera(<<"violencia", "agresión", "ataque", "maltrato">>),
    PalabraEntera(<<"arma", "cuchillo", "pistola", "navaja">>) >>

(***************************************************************************)
(* detectar_urgencia                                                       *)
(***************************************************************************)
palabras_criticas == <<"urgente", "inmediato", "emergencia", "ayuda", "socorro">>

\* a variant of PuntuacionUrgenciaDoble: the score divided by the number of
\* words of the message
PuntuacionUrgenciaPorPalabra(mensaje) ==
    LET mensaje_lower == lower(mensaje)
        criticos == TotalCoincidencias(patrones_urgencia_critica, mensaje_lower)
        violentos == TotalCoincidencias(patrones_violencia, mensaje_lower)
        repeticiones == Suma([i \in 1..Len(palabras_criticas) |->
                                 count(mensaje_lower, palabras_criticas[i])])
        palabras == Len(split(mensaje))
    IN  (2 * (criticos * 2) + 2 * (violentos * 3) + repeticiones * 3)
          \div (IF palabras = 0 THEN 1 ELSE palabras)

\* a variant of PuntuacionUrgenciaDoble: the exclamation bonus from the
\* fourth exclamation mark on
PuntuacionUrgenciaMasDeTres(mensaje) ==
    LET mensaje_lower == lower(mensaje)
        criticos == TotalCoincidencias(patrones_urgencia_critica, mensaje_lower)
        violentos == TotalCoincidencias(patrones_violencia, mensaje_lower)
        repeticiones == Suma([i \in 1..Len(palabras_criticas) |->
                                 count(mensaje_lower, palabras_criticas[i])])
        exclamaciones == count(mensaje, "!")
        palabras == split(mensaje)
        palabras_mayusculas ==
            Cardinality({i \in 1..Len(palabras) :
                            isupper(palabras[i]) /\ Len(palabras[i]) > 2})
    IN  2 * (criticos * 2) + 2 * (violentos * 3) + repeticiones * 3
          + (IF exclamaciones > 3 THEN 2 * 2 ELSE 0)
          + (IF palabras_mayusculas >= 3 THEN 2 * 1 ELSE 0)

\* twice puntuacion_urgencia, which the code keeps in steps of 0.5
PuntuacionUrgenciaDoble(mensaje) ==
    LET mensaje_lower == lower(mensaje)
        criticos == TotalCoincidencias(patrones_urgencia_critica, mensaje_lower)
        violentos == TotalCoincidencias(patrones_violencia, mensaje_lower)
        repeticiones == Suma([i \in 1..Len(palabras_criticas) |->
                                 IF Contiene(mensaje_lower, palabras_criticas[i])
                                 THEN count(mensaje_lower, palabras_criticas[i])
                                 ELSE 0])
        exclamaciones == count(mensaje, "!")
        palabras == split(mensaje)
        palabras_mayusculas ==
            Cardinality({i \in 1..Len(palabras) :
                            isupper(palabras[i]) /\ Len(palabras[i]) > 2})
    IN  2 * (criticos * 2) + 2 * (violentos * 3) + repeticiones * 3
          + (IF exclamaciones >= 3 THEN 2 * 2 ELSE 0)
          + (IF palabras_mayusculas >= 3 THEN 2 * 1 ELSE 0)

\* a variant of NivelDePuntuacionDoble: the thresholds of the code compared
\* with the doubled score as they stand
NivelDePuntuacionSinDoblar(doble) ==
    IF doble >= 12 THEN "EMERGENCIA"
    ELSE IF doble >= 8 THEN "CRITICA"
    ELSE IF doble >= 5 THEN "ALTA"
    ELSE IF doble >= 2 THEN "MEDIA"
    ELSE "BAJA"

NivelDePuntuacionDoble(doble) ==
    IF doble >= 2 * 12 THEN "EMERGENCIA"
    ELSE IF doble >= 2 * 8 THEN "CRITICA"
    ELSE IF doble >= 2 * 5 THEN "ALTA"
    ELSE IF doble >= 2 * 2 THEN "MEDIA"
    ELSE "BAJA"

detectar_urgencia(mensaje) == NivelDePuntuacionDoble(PuntuacionUrgenciaDoble(mensaje))

(***************************************************************************)
(* Rounding.                                                               *)
(***************************************************************************)
\* round(num / den) for num >= 0, den > 0: nearest integer, halves to even
Redondear(num, den) ==
    LET piso == num \div den
        resto2 == 2 * (num % den)
    IN  IF resto2 > den THEN piso + 1
        ELSE IF resto2 < den THEN piso
        ELSE IF piso % 2 = 0 THEN piso ELSE piso + 1

(***************************************************************************)
(* _inicializar_categorias                                                 *)
(***************************************************************************)
\* the keys of patrones_categorias in insertion order
OrdenCategorias ==
    <<"acoso_laboral", "discriminacion", "fraude", "seguridad", "violencia", "corrupcion">>

patrones_categorias == [
    acoso_laboral |-> <<
        PalabraEntera(<<"acoso", "hostigamiento", "intimidación", "presión">>),
        PalabraEntera(<<"jefe", "supervisor", "compañero", "colega">>),
        PalabraEntera(<<"trabajo", "laboral", "oficina", "empleado">>) >>,
    discriminacion |-> <<
        PalabraEntera(<<"discriminación", "racismo", "sexismo", "prejuicio">>),
        PalabraEntera(<<"género", "raza", "edad", "religión", "orientación">>),
        <<B, Alt(<< <<Lit("trato"), Rep(Espacios, 0, -1), Lit("diferente")>>,
                    <<Lit("exclusión")>>,
                    <<Lit("marginación")>> >>), B>> >>,
    fraude |-> <<
        PalabraEntera(<<"fraude", "estafa", "robo", "hurto", "malversación">>),
        PalabraEntera(<<"dinero", "efectivo", "fondos", "recursos", "presupuesto">>),
        PalabraEntera(<<"factura", "cuenta", "pago", "cobro">>) >>,
    seguridad |-> <<
        PalabraEntera(<<"seguridad", "riesgo", "peligro", "accidente">>),
        PalabraEntera(<<"equipo", "herramienta", "máquina", "instalación">>),
        PalabraEntera(<<"norma", "protocolo", "procedimiento", "regla">>) >>,
    violencia |-> <<
        PalabraEntera(<<"violencia", "agresión", "golpe", "maltrato">>),
        PalabraEntera(<<"físico", "verbal", "psicológico", "sexual">>),
        PalabraEntera(<<"amenaza", "intimidación", "hostigamiento">>) >>,
    corrupcion |-> <<
        PalabraEntera(<<"corrupción", "soborno", "coima", "mordida">>),
        <<B, Alt(<< <<Lit("favoritismo")>>,
                    <<Lit("nepotismo")>>,
                    <<Lit("tráfico"), Rep(Espacios, 0, -1), Lit("de"),
                      Rep(Espacios, 0, -1), Lit("influencias")>> >>), B>>,
        PalabraEntera(<<"ilegal", "irregular", "indebido", "inapropiado">>) >> ]

(***************************************************************************)
(* _inicializar_alertas                                                    *)
(***************************************************************************)
\* a variant of umbrales_alerta: evidencia_solida from 2 matches on
umbrales_alerta_evidencia2 == [urgencia_critica |-> 3,
                               contenido_violento |-> 2,
                               amenaza_directa |-> 1,
                               situacion_riesgo |-> 2,
                               evidencia_solida |-> 2]

umbrales_alerta == [urgencia_critica |-> 3,
                    contenido_violento |-> 2,
                    amenaza_directa |-> 1,
                    situacion_riesgo |-> 2,
                    evidencia_solida |-> 3]

(***************************************************************************)
(* sugerir_categoria_mejorada                                              *)
(***************************************************************************)
\* any(word in mensaje_lower for word in palabras)
AlgunaContenida(mensaje_lower, palabras) ==
    \E i \in 1..Len(palabras) : Contiene(mensaje_lower, palabras[i])

\* the word lists of the "Bonus por contexto"
PalabrasContexto == [acoso_laboral |-> <<"trabajo", "oficina", "jefe">>,
                     violencia |-> <<"golpe", "amenaza", "miedo">>,
                     fraude |-> <<"dinero", "factura", "pago">>]

\* the "Bonus por contexto" of one category
BonusContexto(categoria, mensaje_lower) ==
    IF categoria = "acoso_laboral"
       /\ AlgunaContenida(mensaje_lower, PalabrasContexto.acoso_laboral) THEN 2
    ELSE IF categoria = "violencia"
       /\ AlgunaContenida(mensaje_lower, PalabrasContexto.violencia) THEN 3
    ELSE IF categoria = "fraude"
       /\ AlgunaContenida(mensaje_lower, PalabrasContexto.fraude) THEN 2
    ELSE 0

\* the dict puntuaciones of sugerir_categoria_mejorada
PuntuacionesCategoria(mensaje) ==
    LET mensaje_lower == lower(mensaje)
        puntuacion(categoria) ==
            TotalCoincidencias(patrones_categorias[categoria], mensaje_lower)
              + BonusContexto(categoria, mensaje_lower)
    IN  [acoso_laboral |-> puntuacion("acoso_laboral"),
         discriminacion |-> puntuacion("discriminacion"),
         fraude |-> puntuacion("fraude"),
         seguridad |-> puntuacion("seguridad"),
         violencia |-> puntuacion("violencia"),
         corrupcion |-> puntuacion("corrupcion")]

\* a variant of PrimeraMaxima: of the keys that hold the largest value, the
\* last one in insertion order
UltimaMaxima(puntuaciones) ==
    LET i == CHOOSE j \in 1..Len(OrdenCategorias) :
                 /\ \A k \in 1..Len(OrdenCategorias) :
                        puntuaciones[OrdenCategorias[k]] <= puntuaciones[OrdenCategorias[j]]
                 /\ \A k \in (j + 1)..Len(OrdenCategorias) :
                        puntuaciones[OrdenCategorias[k]] < puntuaciones[OrdenCategorias[j]]
    IN  OrdenCategorias[i]

\* max(puntuaciones, key=puntuaciones.get): the first key, in insertion
\* order, that holds the largest value
PrimeraMaxima(puntuaciones) ==
    LET i == CHOOSE j \in 1..Len(OrdenCategorias) :
                 /\ \A k \in 1..Len(OrdenCategorias) :
                        puntuaciones[OrdenCategorias[k]] <= puntuaciones[OrdenCategorias[j]]
                 /\ \A k \in 1..(j - 1) :
                        puntuaciones[OrdenCategorias[k]] < puntuaciones[OrdenCategorias[j]]
    IN  OrdenCategorias[i]

\* a variant of sugerir_categoria_mejorada: the best-scoring category even
\* when its score is 0
sugerir_categoria_sin_otros(mensaje) == PrimeraMaxima(PuntuacionesCategoria(mensaje))

sugerir_categoria_mejorada(mensaje) ==
    LET puntuaciones == PuntuacionesCategoria(mensaje)
        categoria_sugerida == PrimeraMaxima(puntuaciones)
    IN  IF puntuaciones[categoria_sugerida] > 0 THEN categoria_sugerida ELSE "otros"

(***************************************************************************)
(* _calcular_confianza_categoria, in hundredths                            *)
(***************************************************************************)
\* a variant of _calcular_confianza_categoria: matches / len(patrones)
\* without the min(..., 1.0)
_calcular_confianza_sin_tope(mensaje, categoria) ==
    IF categoria \notin DOMAIN patrones_categorias THEN 50
    ELSE LET patrones == patrones_categorias[categoria]
             matches == TotalCoincidencias(patrones, lower(mensaje))
         IN  Redondear(100 * matches, Len(patrones))

_calcular_confianza_categoria(mensaje, categoria) ==
    IF categoria \notin DOMAIN patrones_categorias THEN 50
    ELSE LET patrones == patrones_categorias[categoria]
             matches == TotalCoincidencias(patrones, lower(mensaje))
         IN  Redondear(100 * Min(matches, Len(patrones)), Len(patrones))

(***************************************************************************)
(* _get_categorias_alternativas                                            *)
(***************************************************************************)
\* sorted(items, key=value, reverse=True): a stable sort, so equal scores
\* keep their insertion order
RECURSIVE OrdenarPorPuntuacion(_, _)
OrdenarPorPuntuacion(claves, puntuacion) ==
    IF Len(claves) = 0 THEN <<>>
    ELSE LET i == CHOOSE j \in 1..Len(claves) :
                      /\ \A k \in 1..Len(claves) : puntuacion[claves[k]] <= puntuacion[claves[j]]
                      /\ \A k \in 1..(j - 1) : puntuacion[claves[k]] < puntuacion[claves[j]]
         IN  <<claves[i]>> \o
             OrdenarPorPuntuacion(SubSeq(claves, 1, i - 1) \o SubSeq(claves, i + 1, Len(claves)),
                                  puntuacion)

\* the raw match count of every category, without the context bonus
CoincidenciasCategoria(mensaje) ==
    LET mensaje_lower == lower(mensaje)
        puntuacion(categoria) ==
            TotalCoincidencias(patrones_categorias[categoria], mensaje_lower)
    IN  [acoso_laboral |-> puntuacion("acoso_laboral"),
         discriminacion |-> puntuacion("discriminacion"),
         fraude |-> puntuacion("fraude"),
         seguridad |-> puntuacion("seguridad"),
         violencia |-> puntuacion("violencia"),
         corrupcion |-> puntuacion("corrupcion")]

_get_categorias_alternativas(mensaje) ==
    LET puntuacion == CoincidenciasCategoria(mensaje)
        presentes == SelectSeq(OrdenCategorias, LAMBDA c : puntuacion[c] > 0)
        alternativas == OrdenarPorPuntuacion(presentes, puntuacion)
    IN  SubSeq(alternativas, 1, Min(3, Len(alternativas)))

(***************************************************************************)
(* calcular_prioridad                                                      *)
(***************************************************************************)
\* \b(prueba|evidencia|documento|testigo)\b
PatronFactorEvidencia == PalabraEntera(<<"prueba", "evidencia", "documento", "testigo">>)
\* \b(ahora|hoy|ayer|esta\s*(mañana|tarde))\b
PatronFactorTiempo ==
    <<B, Alt(<< <<Lit("ahora")>>, <<Lit("hoy")>>, <<Lit("ayer")>>,
                <<Lit("esta"), Rep(Espacios, 0, -1), O(<<"mañana", "tarde">>)>> >>), B>>
\* \b(persona|gente|todos|muchos|varios)\b
PatronFactorPersonas == PalabraEntera(<<"persona", "gente", "todos", "muchos", "varios">>)
\* \b(empresa|organización|departamento|todos)\b
PatronFactorImpacto == PalabraEntera(<<"empresa", "organización", "departamento", "todos">>)

\* prioridad_base + factores, in tenths, before the cap and the rounding
PrioridadDecimas(mensaje, urgencia) ==
    LET m == lower(mensaje)
        evidencias == Len(findall(PatronFactorEvidencia, m))
        tiempo_inmediato == Len(findall(PatronFactorTiempo, m))
        personas == Len(findall(PatronFactorPersonas, m))
        impacto_org == Len(findall(PatronFactorImpacto, m))
    IN  10 * NivelUrgencia[urgencia]
          + Min(evidencias * 5, 10) + Min(tiempo_inmediato * 3, 8)
          + Min(personas * 2, 6) + Min(impacto_org * 3, 7)

\* a variant of calcular_prioridad: the decimals cut off instead of rounded
calcular_prioridad_truncada(mensaje, urgencia) ==
    Min(PrioridadDecimas(mensaje, urgencia), 50) \div 10

calcular_prioridad(mensaje, urgencia) ==
    Redondear(Min(PrioridadDecimas(mensaje, urgencia), 50), 10)

(***************************************************************************)
(* evaluar_evidencias                                                      *)
(***************************************************************************)
\* the dict tipos_evidencia and its keys in insertion order
OrdenTiposEvidencia == <<"documental", "visual", "testimonial", "física">>

tipos_evidencia ==
    ("documental" :> PalabraEntera(<<"documento", "papel", "archivo", "reporte", "email", "mensaje">>))
    @@ ("visual" :> PalabraEntera(<<"foto", "imagen", "video", "grabación", "captura">>))
    @@ ("testimonial" :> PalabraEntera(<<"testigo", "vio", "escuchó", "presenció", "dijo">>))
    @@ ("física" :> PalabraEntera(<<"objeto", "cosa", "elemento", "marca", "señal">>))

\* \d{1,2}[:/]\d{1,2}
PatronHora == <<Rep(Digitos, 1, 2), Rep({":", "/"}, 1, 1), Rep(Digitos, 1, 2)>>
\* \d{1,2}[/-]\d{1,2}[/-]\d{2,4}
PatronFecha == <<Rep(Digitos, 1, 2), Rep({"/", "-"}, 1, 1), Rep(Digitos, 1, 2),
                 Rep({"/", "-"}, 1, 1), Rep(Digitos, 2, 4)>>
\* a variant of PatronLugarNumerado: \b(sala|oficina|piso) \d+\b, with one
\* space where the code has \s*
PatronLugarConUnEspacio ==
    <<B, O(<<"sala", "oficina", "piso">>), Lit(" "), Rep(Digitos, 1, -1), B>>

\* \b(sala|oficina|piso)\s*\d+\b
PatronLugarNumerado ==
    <<B, O(<<"sala", "oficina", "piso">>), Rep(Espacios, 0, -1), Rep(Digitos, 1, -1), B>>

Especificidad(mensaje) ==
    Len(findall(PatronHora, mensaje)) + Len(findall(PatronFecha, mensaje))
      + Len(findall(PatronLugarNumerado, lower(mensaje)))

\* the count of each evidence type
CoincidenciasEvidencia(mensaje) ==
    LET mensaje_lower == lower(mensaje)
        cuenta(tipo) == Len(findall(tipos_evidencia[tipo], mensaje_lower))
    IN  ("documental" :> cuenta("documental")) @@ ("visual" :> cuenta("visual"))
        @@ ("testimonial" :> cuenta("testimonial")) @@ ("física" :> cuenta("física"))

\* a variant of PuntuacionEvidenciaDoble: especificidad counted whole, not
\* by half
PuntuacionEvidenciaSinMitad(mensaje) ==
    LET matches == CoincidenciasEvidencia(mensaje)
    IN  2 * Suma([i \in 1..Len(OrdenTiposEvidencia) |-> matches[OrdenTiposEvidencia[i]]])
          + 2 * Especificidad(mensaje)

\* twice puntuacion_total, which the code keeps in steps of 0.5
PuntuacionEvidenciaDoble(mensaje) ==
    LET matches == CoincidenciasEvidencia(mensaje)
    IN  2 * Suma([i \in 1..Len(OrdenTiposEvidencia) |-> matches[OrdenTiposEvidencia[i]]])
          + Especificidad(mensaje)

evaluar_evidencias(mensaje) ==
    LET matches == CoincidenciasEvidencia(mensaje)
        doble == PuntuacionEvidenciaDoble(mensaje)
    IN  [tipos_evidencia |->
            [tipo \in {t \in DOMAIN tipos_evidencia : matches[t] > 0} |-> matches[tipo]],
         puntuacion_evidencia_doble |-> doble,
         nivel_credibilidad |->
            IF doble >= 2 * 5 THEN "alta"
            ELSE IF doble >= 2 * 3 THEN "media"
            ELSE IF doble >= 2 * 1 THEN "baja"
            ELSE "muy_baja",
         especificidad |-> Especificidad(mensaje),
         requiere_mas_evidencia |-> doble < 2 * 2]

(***************************************************************************)
(* The remaining tables of _inicializar_patrones                           *)
(***************************************************************************)
patrones_evidencia == <<
    PalabraEntera(<<"prueba", "evidencia", "documento", "foto", "video">>),
    PalabraEntera(<<"testigo", "vio", "escuchó", "presenció">>),
    PalabraEntera(<<"fecha", "hora", "día", "momento">>),
    PalabraEntera(<<"lugar", "ubicación", "sitio", "donde">>),
    PalabraEntera(<<"nombre", "persona", "quien", "sujeto">>) >>

\* each pattern with the alternatives of its inner, second group (empty
\* when the pattern has one group only)
patrones_tiempo == <<
    [re |-> <<B, Alt(<< PatronHora,
                        <<Rep(Digitos, 1, 2), Rep(Espacios, 0, -1), O(<<"am", "pm">>)>> >>), B>>,
     grupo2 |-> <<"am", "pm">>],
    [re |-> <<B>> \o PatronFecha \o <<B>>,
     grupo2 |-> <<>>],
    [re |-> <<B, Alt(<< <<Lit("ayer")>>, <<Lit("hoy")>>, <<Lit("mañana")>>, <<Lit("anoche")>>,
                        <<Lit("esta"), Rep(Espacios, 0, -1),
                          O(<<"mañana", "tarde", "noche">>)>> >>), B>>,
     grupo2 |-> <<"mañana", "tarde", "noche">>],
    [re |-> PalabraEntera(<<"lunes", "martes", "miércoles", "jueves", "viernes",
                            "sábado", "domingo">>),
     grupo2 |-> <<>>] >>

patrones_lugares == <<
    PalabraEntera(<<"oficina", "sala", "baño", "estacionamiento", "pasillo">>),
    <<B, Alt(<< <<Lit("piso"), Rep(Espacios, 0, -1), Rep(Digitos, 1, -1)>>,
                <<Lit("planta"), Rep(Espacios, 0, -1), Rep(Digitos, 1, -1)>>,
                <<Lit("edificio")>> >>), B>>,
    PalabraEntera(<<"departamento", "área", "sección", "división">>),
    <<B, Alt(<< <<Lit("cerca"), Rep(Espacios, 0, -1), Lit("de")>>,
                <<Lit("junto"), Rep(Espacios, 0, -1), Lit("a")>>,
                <<Lit("en"), Rep(Espacios, 0, -1), Lit("el")>>,
                <<Lit("en"), Rep(Espacios, 0, -1), Lit("la")>> >>), B>> >>

\* the keys of patrones_emociones in insertion order
OrdenEmociones == <<"miedo", "enojo", "tristeza", "ansiedad", "frustración">>

patrones_emociones ==
    ("miedo" :> << PalabraEntera(<<"miedo", "temor", "asustado", "aterrado", "pánico">>) >>)
    @@ ("enojo" :> << PalabraEntera(<<"enojado", "furioso", "molesto", "indignado", "irritado">>) >>)
    @@ ("tristeza" :> << PalabraEntera(<<"triste", "deprimido", "desanimado", "abatido">>) >>)
    @@ ("ansiedad" :> << PalabraEntera(<<"ansioso", "nervioso", "preocupado", "estresado">>) >>)
    @@ ("frustración" :> << PalabraEntera(<<"frustrado", "desesperado", "harto", "cansado">>) >>)

(***************************************************************************)
(* list(set(xs)): the distinct items of xs in the order in which the set's *)
(* hash table yields them.  That order is fixed by the interpreter's hash  *)
(* seed, not by the program; the model takes the items in order of first   *)
(* occurrence and rotates them by the seed.                                *)
(***************************************************************************)
RECURSIVE Unicos(_)
Unicos(xs) ==
    IF Len(xs) = 0 THEN <<>>
    ELSE LET resto == Unicos(SubSeq(xs, 1, Len(xs) - 1))
             ultimo == xs[Len(xs)]
         IN  IF \E i \in 1..Len(resto) : resto[i] = ultimo THEN resto
             ELSE Append(resto, ultimo)

ListaDeConjunto(xs, hash_seed) ==
    LET u == Unicos(xs)
        n == Len(u)
    IN  [i \in 1..n |-> u[((i - 1 + hash_seed) % n) + 1]]

Elementos(xs) == {xs[i] : i \in 1..Len(xs)}

\* the concatenation of a sequence of sequences
RECURSIVE Aplanar(_)
Aplanar(xss) == IF Len(xss) = 0 THEN <<>> ELSE Head(xss) \o Aplanar(Tail(xss))

(***************************************************************************)
(* extraer_entidades                                                       *)
(* An item that findall yields as a plain string s is written <<s>>, one   *)
(* that it yields as a tuple of two groups (g1, g2) is written <<g1, g2>>. *)
(***************************************************************************)
\* the text of the inner group of a match: the alternative that ends the
\* matched text, when the match is longer than it, else the empty string
SegundoGrupo(texto, opciones) ==
    LET cabe(o) == /\ Len(texto) > Len(o)
                   /\ lower(SubSeq(texto, Len(texto) - Len(o) + 1, Len(texto))) = o
        sirven == SelectSeq(opciones, cabe)
    IN  IF Len(sirven) = 0 THEN ""
        ELSE SubSeq(texto, Len(texto) - Len(sirven[1]) + 1, Len(texto))

\* re.findall(patron, mensaje, re.IGNORECASE) for a pattern with one group
\* around everything between the two \b
FindallTextos(re, mensaje) ==
    LET ms == findall(re, lower(mensaje))
    IN  [i \in 1..Len(ms) |-> << SubSeq(mensaje, ms[i][1], ms[i][2] - 1) >>]

\* the same for a pattern with an inner second group
FindallGrupos(re, grupo2, mensaje) ==
    LET ms == findall(re, lower(mensaje))
    IN  [i \in 1..Len(ms) |->
            LET texto == SubSeq(mensaje, ms[i][1], ms[i][2] - 1)
            IN  <<texto, SegundoGrupo(texto, grupo2)>>]

NoSonNombres == {"que", "pero", "porque", "cuando", "donde"}

extraer_entidades(mensaje, hash_seed) ==
    LET tiempos == Aplanar([i \in 1..Len(patrones_tiempo) |->
                       IF Len(patrones_tiempo[i].grupo2) = 0
                       THEN FindallTextos(patrones_tiempo[i].re, mensaje)
                       ELSE FindallGrupos(patrones_tiempo[i].re, patrones_tiempo[i].grupo2,
                                          mensaje)])
        lugares == Aplanar([i \in 1..Len(patrones_lugares) |->
                       FindallTextos(patrones_lugares[i], mensaje)])
        evidencias == Aplanar([i \in 1..Len(patrones_evidencia) |->
                          FindallTextos(patrones_evidencia[i], mensaje)])
        palabras == split(mensaje)
        indices == SelectSeq(Posiciones(Len(palabras)),
                       LAMBDA i : /\ i > 1
                                  /\ SubSeq(palabras[i], 1, 1) \in Caracteres(Mayusculas)
                                  /\ Len(palabras[i]) > 2
                                  /\ lower(palabras[i]) \notin NoSonNombres)
        personas == [k \in 1..Len(indices) |-> << palabras[indices[k]] >>]
    IN  [tiempos |-> ListaDeConjunto(tiempos, hash_seed),
         lugares |-> ListaDeConjunto(lugares, hash_seed),
         personas |-> ListaDeConjunto(personas, hash_seed),
         evidencias |-> ListaDeConjunto(evidencias, hash_seed)]

(***************************************************************************)
(* analizar_sentimientos                                                   *)
(***************************************************************************)
palabras_negativas == <<"malo", "terrible", "horrible", "odio", "detesto", "molesto">>
palabras_positivas == <<"bueno", "bien", "excelente", "contento", "feliz", "satisfecho">>

\* sum(1 for palabra in palabras if palabra in mensaje_lower)
CuantasContenidas(mensaje_lower, palabras) ==
    Cardinality({i \in 1..Len(palabras) : Contiene(mensaje_lower, palabras[i])})

\* a variant of analizar_sentimientos: the intensity of an emotion without
\* the min(intensidad, 5)
analizar_sentimientos_sin_tope(mensaje) ==
    LET mensaje_lower == lower(mensaje)
        intensidad(emocion) == TotalCoincidencias(patrones_emociones[emocion], mensaje_lower)
        cuentas == ("miedo" :> intensidad("miedo")) @@ ("enojo" :> intensidad("enojo"))
                   @@ ("tristeza" :> intensidad("tristeza"))
                   @@ ("ansiedad" :> intensidad("ansiedad"))
                   @@ ("frustración" :> intensidad("frustración"))
        detectadas == SelectSeq(OrdenEmociones, LAMBDA e : cuentas[e] > 0)
        negatividad == CuantasContenidas(mensaje_lower, palabras_negativas)
        positividad == CuantasContenidas(mensaje_lower, palabras_positivas)
        intensidad_total == Suma([i \in 1..Len(detectadas) |-> cuentas[detectadas[i]]])
    IN  [emociones_detectadas |-> [e \in Elementos(detectadas) |-> cuentas[e]],
         polaridad |-> IF negatividad > positividad THEN "negativa"
                       ELSE IF positividad > negatividad THEN "positiva"
                       ELSE "neutral",
         intensidad |-> IF intensidad_total <= 2 THEN "baja"
                        ELSE IF intensidad_total <= 5 THEN "media"
                        ELSE "alta",
         requiere_apoyo_emocional |->
            intensidad_total >= 4 \/ "miedo" \in Elementos(detectadas)]

analizar_sentimientos(mensaje) ==
    LET mensaje_lower == lower(mensaje)
        intensidad(emocion) == TotalCoincidencias(patrones_emociones[emocion], mensaje_lower)
        cuentas == ("miedo" :> intensidad("miedo")) @@ ("enojo" :> intensidad("enojo"))
                   @@ ("tristeza" :> intensidad("tristeza"))
                   @@ ("ansiedad" :> intensidad("ansiedad"))
                   @@ ("frustración" :> intensidad("frustración"))
        detectadas == SelectSeq(OrdenEmociones, LAMBDA e : cuentas[e] > 0)
        negatividad == CuantasContenidas(mensaje_lower, palabras_negativas)
        positividad == CuantasContenidas(mensaje_lower, palabras_positivas)
        intensidad_total == Suma([i \in 1..Len(detectadas) |-> Min(cuentas[detectadas[i]], 5)])
    IN  [emociones_detectadas |->
            [e \in Elementos(detectadas) |-> Min(cuentas[e], 5)],
         polaridad |-> IF negatividad > positividad THEN "negativa"
                       ELSE IF positividad > negatividad THEN "positiva"
                       ELSE "neutral",
         intensidad |-> IF intensidad_total <= 2 THEN "baja"
                        ELSE IF intensidad_total <= 5 THEN "media"
                        ELSE "alta",
         requiere_apoyo_emocional |->
            intensidad_total >= 4 \/ "miedo" \in Elementos(detectadas)]

(***************************************************************************)
(* generar_alertas                                                         *)
(***************************************************************************)
\* \b(amenaza|amenazar|lastimar|dañar|hacer\s*daño)\b
PatronAmenazaDirecta ==
    <<B, Alt(<< <<Lit("amenaza")>>, <<Lit("amenazar")>>, <<Lit("lastimar")>>, <<Lit("dañar")>>,
                <<Lit("hacer"), Rep(Espacios, 0, -1), Lit("daño")>> >>), B>>

PatronRiesgo == PalabraEntera(<<"peligro", "riesgo", "inseguro", "vulnerable", "expuesto">>)

PatronEvidenciaSolida ==
    PalabraEntera(<<"prueba", "evidencia", "documento", "testigo", "foto", "video">>)

\* a variant of patrones_violencia_count: 1 when any violence pattern
\* matches, any(...) where the code has sum(...)
patrones_violencia_alguno(mensaje_lower) ==
    IF \E i \in 1..Len(patrones_violencia) : search(patrones_violencia[i], mensaje_lower)
    THEN 1 ELSE 0

\* sum(1 for patron in self.patrones_violencia if re.search(patron, mensaje_lower))
patrones_violencia_count(mensaje_lower) ==
    Cardinality({i \in 1..Len(patrones_violencia) : search(patrones_violencia[i], mensaje_lower)})

Alerta(tipo, mensaje, prioridad, accion) ==
    [tipo |-> tipo, mensaje |-> mensaje, prioridad |-> prioridad, accion_sugerida |-> accion]

generar_alertas(mensaje, urgencia, prioridad) ==
    LET mensaje_lower == lower(mensaje)
        amenazas_directas == findall(PatronAmenazaDirecta, mensaje_lower)
        indicadores_riesgo == findall(PatronRiesgo, mensaje_lower)
        evidencias_count == Len(findall(PatronEvidenciaSolida, mensaje_lower))
    IN  (IF NivelUrgencia[urgencia] >= umbrales_alerta[TipoAlerta.URGENCIA_CRITICA]
         THEN << Alerta(TipoAlerta.URGENCIA_CRITICA,
                        "Denuncia con urgencia " \o urgencia \o " - Requiere atención inmediata",
                        "alta",
                        "Contactar inmediatamente al denunciante o autoridades competentes") >>
         ELSE <<>>)
        \o
        (IF patrones_violencia_count(mensaje_lower) >= umbrales_alerta[TipoAlerta.CONTENIDO_VIOLENTO]
         THEN << Alerta(TipoAlerta.CONTENIDO_VIOLENTO,
                        "Contenido con indicadores de violencia detectados",
                        "alta",
                        "Evaluar riesgo para la seguridad personal del denunciante") >>
         ELSE <<>>)
        \o
        (IF Len(amenazas_directas) >= umbrales_alerta[TipoAlerta.AMENAZA_DIRECTA]
         THEN << Alerta(TipoAlerta.AMENAZA_DIRECTA,
                        "Posible amenaza directa identificada",
                        "crítica",
                        "Notificar a seguridad y considerar medidas de protección") >>
         ELSE <<>>)
        \o
        (IF Len(indicadores_riesgo) >= umbrales_alerta[TipoAlerta.SITUACION_RIESGO]
         THEN << Alerta(TipoAlerta.SITUACION_RIESGO,
                        "Situación de riesgo potencial detectada",
                        "media",
                        "Evaluar medidas de seguridad preventivas") >>
         ELSE <<>>)
        \o
        (IF evidencias_count >= umbrales_alerta[TipoAlerta.EVIDENCIA_SOLIDA]
         THEN << Alerta(TipoAlerta.EVIDENCIA_SOLIDA,
                        "Denuncia con evidencia sólida disponible",
                        "media",
                        "Priorizar para investigación detallada") >>
         ELSE <<>>)

(***************************************************************************)
(* generar_recomendaciones                                                 *)
(* A pictograph of the source's strings is written as its code point,      *)
(* U+1F6A8 for the character U+1F6A8.                                      *)
(***************************************************************************)
\* a variant of RecomendacionesDeUrgencia: each pair of actions one urgency
\* rank earlier
RecomendacionesDeUrgenciaUnRangoAntes(urgencia) ==
    IF NivelUrgencia[urgencia] >= 3
    THEN << "U+1F6A8 ACCIÓN INMEDIATA: Contactar al denunciante en las próximas 2 horas",
            "U+1F4DE Notificar a autoridades competentes si hay riesgo inmediato" >>
    ELSE IF NivelUrgencia[urgencia] >= 2
    THEN << "U+23F0 Responder dentro de las próximas 24 horas",
            "U+1F50D Iniciar investigación preliminar" >>
    ELSE <<>>

\* "Recomendaciones basadas en urgencia"
RecomendacionesDeUrgencia(urgencia) ==
    IF NivelUrgencia[urgencia] >= 4
    THEN << "U+1F6A8 ACCIÓN INMEDIATA: Contactar al denunciante en las próximas 2 horas",
            "U+1F4DE Notificar a autoridades competentes si hay riesgo inmediato" >>
    ELSE IF NivelUrgencia[urgencia] >= 3
    THEN << "U+23F0 Responder dentro de las próximas 24 horas",
            "U+1F50D Iniciar investigación preliminar" >>
    ELSE <<>>

\* a variant of RecomendacionesDeAlertas: the alerts of priority alta
\* passed over
RecomendacionesDeAlertasSoloCriticas(alertas) ==
    Aplanar([i \in 1..Len(alertas) |->
                IF alertas[i].prioridad = "crítica"
                THEN << "U+1F6A8 CRÍTICO: " \o alertas[i].accion_sugerida >>
                ELSE <<>>])

\* "Recomendaciones basadas en alertas"
RecomendacionesDeAlertas(alertas) ==
    Aplanar([i \in 1..Len(alertas) |->
                IF alertas[i].prioridad = "crítica"
                THEN << "U+1F6A8 CRÍTICO: " \o alertas[i].accion_sugerida >>
                ELSE IF alertas[i].prioridad = "alta"
                THEN << "U+26A0U+FE0F ALTA: " \o alertas[i].accion_sugerida >>
                ELSE <<>>])

\* the list recomendaciones before list(set(...))
RecomendacionesEnOrden(urgencia, categoria, evidencias, alertas) ==
    RecomendacionesDeUrgencia(urgencia)
    \o
    (IF categoria = "violencia"
     THEN << "U+1F6E1U+FE0F Evaluar necesidad de medidas de protección",
             "U+1F465 Involucrar a recursos humanos y seguridad" >>
     ELSE IF categoria = "fraude"
     THEN << "U+1F4B0 Revisar registros financieros relacionados",
             "U+1F512 Asegurar documentación contable" >>
     ELSE IF categoria = "acoso_laboral"
     THEN << "U+1F4CB Documentar patrones de comportamiento",
             "U+1F91D Ofrecer apoyo psicológico al denunciante" >>
     ELSE <<>>)
    \o
    (IF evidencias.nivel_credibilidad = "alta"
     THEN << "U+1F4C1 Recopilar y preservar evidencias mencionadas",
             "U+2696U+FE0F Considerar para proceso formal de investigación" >>
     ELSE IF evidencias.requiere_mas_evidencia
     THEN << "U+1F50D Solicitar evidencia adicional al denunciante",
             "U+1F465 Buscar testigos o fuentes corroborativas" >>
     ELSE <<>>)
    \o
    RecomendacionesDeAlertas(alertas)
    \o
    << "U+1F4DD Registrar todas las acciones tomadas",
       "U+1F504 Programar seguimiento según cronograma establecido" >>

\* a variant of generar_recomendaciones: the list cut to its first three items
generar_recomendaciones_primeras(urgencia, categoria, evidencias, alertas, hash_seed) ==
    LET todas == ListaDeConjunto(RecomendacionesEnOrden(urgencia, categoria, evidencias, alertas),
                                 hash_seed)
    IN  SubSeq(todas, 1, Min(3, Len(todas)))

generar_recomendaciones(urgencia, categoria, evidencias, alertas, hash_seed) ==
    ListaDeConjunto(RecomendacionesEnOrden(urgencia, categoria, evidencias, alertas), hash_seed)

(***************************************************************************)
(* The derived fields of the result                                        *)
(***************************************************************************)
_get_descripcion_urgencia(urgencia) ==
    CASE urgencia = "BAJA" -> "Situación que puede esperar proceso normal"
      [] urgencia = "MEDIA" -> "Requiere atención en tiempo razonable"
      [] urgencia = "ALTA" -> "Necesita atención prioritaria"
      [] urgencia = "CRITICA" -> "Requiere acción inmediata"
      [] urgencia = "EMERGENCIA" -> "EMERGENCIA - Acción inmediata crítica"
      [] OTHER -> "Nivel no definido"

_get_nivel_prioridad(prioridad) ==
    IF prioridad >= 5 THEN "EMERGENCIA"
    ELSE IF prioridad >= 4 THEN "ALTA"
    ELSE IF prioridad >= 3 THEN "MEDIA"
    ELSE IF prioridad >= 2 THEN "BAJA"
    ELSE "MÍNIMA"

_get_justificacion_prioridad(prioridad) ==
    CASE prioridad = 5 -> "Múltiples factores críticos detectados"
      [] prioridad = 4 -> "Urgencia alta con factores agravantes"
      [] prioridad = 3 -> "Situación importante que requiere atención"
      [] prioridad = 2 -> "Caso que merece seguimiento regular"
      [] prioridad = 1 -> "Situación menor para proceso normal"
      [] OTHER -> "Evaluación estándar"

\* a variant of _requiere_atencion_inmediata: of the alerts, only those of
\* priority crítica count
_requiere_atencion_solo_critica(urgencia, alertas) ==
    IF NivelUrgencia[urgencia] >= 4 THEN TRUE
    ELSE LET alertas_criticas == SelectSeq(alertas, LAMBDA a : a.prioridad \in {"crítica"})
         IN  Len(alertas_criticas) > 0

_requiere_atencion_inmediata(urgencia, alertas) ==
    IF NivelUrgencia[urgencia] >= 4 THEN TRUE
    ELSE LET alertas_criticas == SelectSeq(alertas, LAMBDA a : a.prioridad \in {"crítica", "alta"})
         IN  Len(alertas_criticas) > 0

\* a variant of _calcular_veracidad: the sum without the min(..., 10)
_calcular_veracidad_sin_tope(evidencias, entidades) ==
    5 * evidencias.puntuacion_evidencia_doble
      + Len(entidades.tiempos) * 2 + Len(entidades.lugares) * 3 + Len(entidades.personas) * 1

\* in hundredths
_calcular_veracidad(evidencias, entidades) ==
    LET puntuacion_base_decimas == 5 * evidencias.puntuacion_evidencia_doble
        bonus_entidades_decimas == Len(entidades.tiempos) * 2 + Len(entidades.lugares) * 3
                                     + Len(entidades.personas) * 1
    IN  Min(puntuacion_base_decimas + bonus_entidades_decimas, 100)

\* str.replace(viejo, nuevo) for single characters
RECURSIVE replace(_, _, _)
replace(s, viejo, nuevo) ==
    IF Len(s) = 0 THEN ""
    ELSE IF Len(s) = 1 THEN (IF s = viejo THEN nuevo ELSE s)
    ELSE LET mitad == Len(s) \div 2
         IN  replace(SubSeq(s, 1, mitad), viejo, nuevo)
               \o replace(SubSeq(s, mitad + 1, Len(s)), viejo, nuevo)

_generar_resumen_ejecutivo(mensaje, urgencia, categoria, alertas) ==
    LET longitud == Len(split(mensaje))
        tipos_alerta == {alertas[i].tipo : i \in 1..Len(alertas)}
    IN  "Denuncia de " \o replace(categoria, "_", " ") \o " con urgencia " \o lower(urgencia)
        \o (IF "urgencia_critica" \in tipos_alerta THEN " - REQUIERE ATENCIÓN INMEDIATA"
            ELSE IF "contenido_violento" \in tipos_alerta
            THEN " - Contiene indicadores de violencia"
            ELSE "")
        \o ". Mensaje de " \o ToString(longitud) \o " palabras"
        \o (IF longitud > 200 THEN " con descripción detallada"
            ELSE IF longitud < 50 THEN " - requiere más información"
            ELSE "")

(***************************************************************************)
(* analizar_denuncia_completa, for a str argument: the dict it returns.    *)
(* ahora is the value of datetime.now() when the call starts.  The body    *)
(* is a chain of assignments; each operator below stands for the rest of   *)
(* the body after some of them, with the values assigned so far as its     *)
(* parameters.                                                             *)
(***************************************************************************)
\* the return statement
DictResultado(mensaje, ahora, urgencia, categoria, prioridad, entidades, sentimientos, evidencias, alertas, recomendaciones) ==
    [timestamp_analisis |-> ahora,
     urgencia |-> [nivel |-> urgencia,
                   valor |-> NivelUrgencia[urgencia],
                   descripcion |-> _get_descripcion_urgencia(urgencia)],
     categoria |-> [sugerida |-> categoria,
                    confianza |-> _calcular_confianza_categoria(mensaje, categoria),
                    alternativas |-> _get_categorias_alternativas(mensaje)],
     prioridad |-> [puntuacion |-> prioridad,
                    nivel |-> _get_nivel_prioridad(prioridad),
                    justificacion |-> _get_justificacion_prioridad(prioridad)],
     entidades |-> entidades,
     sentimientos |-> sentimientos,
     evidencias |-> evidencias,
     alertas |-> alertas,
     recomendaciones |-> recomendaciones,
     requiere_atencion_inmediata |-> _requiere_atencion_inmediata(urgencia, alertas),
     puntuacion_veracidad |-> _calcular_veracidad(evidencias, entidades),
     resumen_ejecutivo |-> _generar_resumen_ejecutivo(mensaje, urgencia, categoria, alertas)]

\* from "recomendaciones = ..." on
TrasAlertas(mensaje, ahora, hash_seed, urgencia, categoria, prioridad, entidades, sentimientos, evidencias, alertas) ==
    DictResultado(mensaje, ahora, urgencia, categoria, prioridad, entidades, sentimientos,
                  evidencias, alertas,
                  generar_recomendaciones(urgencia, categoria, evidencias, alertas, hash_seed))

\* from "entidades = ..." on
TrasPrioridad(mensaje, ahora, hash_seed, urgencia, categoria, prioridad) ==
    TrasAlertas(mensaje, ahora, hash_seed, urgencia, categoria, prioridad,
                extraer_entidades(mensaje, hash_seed),
                analizar_sentimientos(mensaje),
                evaluar_evidencias(mensaje),
                generar_alertas(mensaje, urgencia, prioridad))

\* from "categoria = ..." on
TrasUrgencia(mensaje, ahora, hash_seed, urgencia) ==
    TrasPrioridad(mensaje, ahora, hash_seed, urgencia,
                  sugerir_categoria_mejorada(mensaje),
                  calcular_prioridad(mensaje, urgencia))

analizar_denuncia_completa(mensaje, ahora, hash_seed) ==
    TrasUrgencia(mensaje, ahora, hash_seed, detectar_urgencia(mensaje))

(***************************************************************************)
(* __init__: the attributes of the agent.  The three _inicializar_*        *)
(* methods assign them; no other method of the class assigns an attribute  *)
(* or calls a method of one.                                               *)
(***************************************************************************)
AgenteConstruido ==
    [patrones_urgencia_critica |-> patrones_urgencia_critica,
     patrones_violencia |-> patrones_violencia,
     patrones_evidencia |-> patrones_evidencia,
     patrones_tiempo |-> patrones_tiempo,
     patrones_lugares |-> patrones_lugares,
     patrones_emociones |-> patrones_emociones,
     patrones_categorias |-> patrones_categorias,
     umbrales_alerta |-> umbrales_alerta]

\* a variant of AtributosTrasLlamada: a call that lowers the threshold of
\* the alert it has just raised
AtributosConUmbralRebajado(self) ==
    [self EXCEPT !.umbrales_alerta.urgencia_critica = @ - 1]

\* the attributes of the agent when analizar_denuncia_completa is over
AtributosTrasLlamada(self) == self

(***************************************************************************)
(* The calls.                                                              *)
(* An argument is [tipo, valor]: tipo is the Python type of the object     *)
(* passed as mensaje and valor its text when it is a str.                  *)
(***************************************************************************)
Str(s) == [tipo |-> "str", valor |-> s]
None == [tipo |-> "NoneType", valor |-> ""]
Entero == [tipo |-> "int", valor |-> ""]

NoLlamada == [termina |-> "sin_llamada", valor |-> [excepcion |-> ""]]
NoEntrada == [tipo |-> "ninguna", valor |-> ""]

\* What analizar_denuncia_completa(arg) does when it starts at time ahora in
\* an interpreter with the given hash seed.  The first statement that touches
\* mensaje is mensaje.lower() in detectar_urgencia: an object that is no str
\* has no such method, the AttributeError is caught nowhere and leaves the call.
Llamar(arg, ahora, hash_seed) ==
    IF arg.tipo = "str"
    THEN [termina |-> "return",
          valor |-> analizar_denuncia_completa(arg.valor, ahora, hash_seed)]
    ELSE [termina |-> "raise",
          valor |-> [excepcion |-> "AttributeError", en |-> "detectar_urgencia"]]

\* The same call on an agent with the attributes self.  The operators of
\* the engine read the tables that the constructor builds; what a call
\* returns on an agent whose tables are not those is left open.
LlamarSobre(self, arg, ahora, hash_seed) ==
    IF self = AgenteConstruido THEN Llamar(arg, ahora, hash_seed)
    ELSE [termina |-> "return", valor |-> [tablas |-> "otras"]]

(***************************************************************************)
(* Generated texts: up to n pieces of a vocabulary, joined by separators.  *)
(***************************************************************************)
Separadores == {"", " "}

RECURSIVE Frases(_, _)
Frases(vocabulario, n) ==
    IF n = 0 THEN {""}
    ELSE LET cortas == Frases(vocabulario, n - 1)
         IN  cortas \cup vocabulario
               \cup {f \o sep \o pieza : f \in cortas \ {""}, sep \in Separadores,
                                         pieza \in vocabulario}

(***************************************************************************)
(* Callers that share one agent.  Each runs the body of                    *)
(* analizar_denuncia_completa statement by statement; the statements of    *)
(* two callers interleave in any order.  The local variables of a call     *)
(* live in its own frame; self is the one object they all read.            *)
(***************************************************************************)
Hilos == {"h1", "h2"}

\* the frame of a caller that has not called yet
MarcoLibre ==
    [pc |-> "libre", mensaje |-> "", timestamp |-> 0, urgencia |-> "BAJA", categoria |-> "",
     prioridad |-> 0, entidades |-> <<>>, sentimientos |-> <<>>, evidencias |-> <<>>,
     alertas |-> <<>>, recomendaciones |-> <<>>, tablas |-> "construidas",
     resultado |-> NoLlamada]

(***************************************************************************)
(* Actions.                                                                *)
(***************************************************************************)
\* a caller makes its first call, with the argument arg
Analizar(arg) ==
    /\ resultado = NoLlamada
    /\ entrada' = arg
    /\ resultado' = LlamarSobre(agente, arg, reloj, semilla)
    /\ agente' = AtributosTrasLlamada(agente)
    /\ relacion' = "primera"
    /\ UNCHANGED <<reloj, semilla, previa, resultadoPrevio>>
    /\ UNCHANGED FueraDelMotor

\* the call after it, with an argument derived from the first one
Seguir(arg, como) ==
    /\ resultado # NoLlamada
    /\ resultadoPrevio = NoLlamada
    /\ previa' = entrada
    /\ resultadoPrevio' = resultado
    /\ entrada' = arg
    /\ resultado' = LlamarSobre(agente, arg, reloj, semilla)
    /\ agente' = AtributosTrasLlamada(agente)
    /\ relacion' = como
    /\ UNCHANGED <<reloj, semilla>>
    /\ UNCHANGED FueraDelMotor

\* the same argument again
Repetir == Seguir(entrada, "repetida")

\* time passes between two calls
Tic ==
    /\ resultado # NoLlamada
    /\ resultadoPrevio = NoLlamada
    /\ reloj < MaxReloj
    /\ reloj' = reloj + 1
    /\ UNCHANGED <<semilla, entrada, resultado, previa, resultadoPrevio, relacion, agente>>
    /\ UNCHANGED FueraDelMotor

\* the next call is made in another interpreter process, on a fresh agent:
\* string hashing is seeded anew
NuevoProceso ==
    /\ resultado # NoLlamada
    /\ resultadoPrevio = NoLlamada
    /\ \E s \in (0..MaxSemilla) \ {semilla} : semilla' = s
    /\ agente' = AgenteConstruido
    /\ UNCHANGED <<reloj, entrada, resultado, previa, resultadoPrevio, relacion>>
    /\ UNCHANGED FueraDelMotor

(***************************************************************************)
(* The other components of the application.                                *)
(***************************************************************************)

\* ---- utils/validators.py: ValidadorEntrada ----

\* str.strip(): the text without its leading and trailing whitespace
IndicesSinEspacio(s) == {i \in 1..Len(s) : SubSeq(s, i, i) \notin Espacios}

\* a variant of strip that removes the leading whitespace only
strip_solo_izquierda(s) == IF IndicesSinEspacio(s) = {} THEN "" ELSE SubSeq(s, CHOOSE i \in IndicesSinEspacio(s) : \A j \in IndicesSinEspacio(s) : i <= j, Len(s))

strip(s) == IF IndicesSinEspacio(s) = {} THEN "" ELSE SubSeq(s, CHOOSE i \in IndicesSinEspacio(s) : \A j \in IndicesSinEspacio(s) : i <= j, CHOOSE i \in IndicesSinEspacio(s) : \A j \in IndicesSinEspacio(s) : j <= i)

\* x in xs, for a list xs
EnLista(x, xs) == \E i \in 1..Len(xs) : xs[i] = x

\* validar_opcion_menu(opcion, opciones_validas), with opcion_limpia passed on
OpcionLimpiaSiValida(opcion_limpia, opciones_validas) == IF EnLista(opcion_limpia, opciones_validas) THEN Str(opcion_limpia) ELSE None

validar_opcion_menu(opcion, opciones_validas) == OpcionLimpiaSiValida(strip(opcion), opciones_validas)

\* no call of validar_opcion_menu yet
SinValidacion == [llamada |-> FALSE, opcion |-> "", opciones_validas |-> <<>>, devuelve |-> None]

\* all that a call of the validator leaves alone
FueraDeValidacion == <<varsMotor, varsHilos, clasificador, procesamiento, gestor, gestion, denuncias, archivo, registro, cambio, roles, autenticacion>>

\* ---- agente_ia_simple/base.py and clasificador.py: the local pipeline ----
\* Scores and confidences are kept in hundredths.

\* re.sub(r'[^\w\s\.,!?;:]', ' ', texto), character by character
CaracteresConservados == CaracteresPalabra \cup Espacios \cup Caracteres(".,!?;:")

RECURSIVE SinEspeciales(_)
SinEspeciales(texto) == IF Len(texto) = 0 THEN "" ELSE IF Len(texto) = 1 THEN (IF texto \in CaracteresConservados THEN texto ELSE " ") ELSE SinEspeciales(SubSeq(texto, 1, Len(texto) \div 2)) \o SinEspeciales(SubSeq(texto, Len(texto) \div 2 + 1, Len(texto)))

\* " ".join(palabras)
RECURSIVE UnirConEspacio(_)
UnirConEspacio(palabras) == IF Len(palabras) = 0 THEN "" ELSE IF Len(palabras) = 1 THEN palabras[1] ELSE palabras[1] \o " " \o UnirConEspacio(Tail(palabras))

\* UtilsTexto.limpiar_texto: every run of whitespace becomes one space and
\* the ends are stripped, which leaves the words joined by single spaces
limpiar_texto(texto) == IF texto = "" THEN "" ELSE UnirConEspacio(split(SinEspeciales(texto)))

\* self.categorias of ClasificadorSimplificado, in the order of the dict;
\* peso is in tenths
CategoriasClasificador ==
    << [nombre |-> "acoso", peso |-> 10,
        palabras_clave |-> <<"acoso", "hostigamiento", "molesta", "incomoda", "persigue", "insulta">>,
        patrones |-> << <<Lit("me"), Rep(Espacios, 1, -1), Lit("acosa")>>,
                        <<Lit("hostigamiento")>>,
                        <<Lit("comportamiento"), Rep(Espacios, 1, -1), Lit("inadecuado")>> >>],
       [nombre |-> "discriminacion", peso |-> 10,
        palabras_clave |-> <<"discrimina", "raza", "genero", "religion", "edad", "discapacidad">>,
        patrones |-> << <<Lit("por"), Rep(Espacios, 1, -1), Lit("ser"), Rep(Espacios, 1, -1), Rep(CaracteresPalabra, 1, -1)>>,
                        <<Lit("discrimina")>>,
                        <<Lit("trata"), Rep(Espacios, 1, -1), Lit("diferente")>> >>],
       [nombre |-> "corrupcion", peso |-> 10,
        palabras_clave |-> <<"dinero", "soborno", "pago", "beneficio", "favor", "trampa">>,
        patrones |-> << <<Lit("pide"), Rep(Espacios, 1, -1), Lit("dinero")>>,
                        <<Lit("soborno")>>,
                        <<Lit("corrupcion")>> >>],
       [nombre |-> "problemas_tecnicos", peso |-> 8,
        palabras_clave |-> <<"sistema", "error", "falla", "problema", "tecnico", "computadora">>,
        patrones |-> << <<Lit("no"), Rep(Espacios, 1, -1), Lit("funciona")>>,
                        <<Lit("error"), Rep(Espacios, 1, -1), Lit("de")>>,
                        <<Lit("falla"), Rep(Espacios, 1, -1), Lit("el")>> >>],
       [nombre |-> "otros", peso |-> 5,
        palabras_clave |-> <<"otro", "diferente", "varios", "general">>,
        patrones |-> << <<Lit("otro"), Rep({"s"}, 0, 1)>>,
                        <<Lit("general")>> >>] >>

\* the loop body of clasificar_denuncia for one category: a tenth for each
\* key word in the text and two for each pattern found, times the weight
PuntuacionClasificador(config, texto_lower) == config.peso * (Cardinality({i \in 1..Len(config.palabras_clave) : Contiene(texto_lower, config.palabras_clave[i])}) + 2 * Cardinality({i \in 1..Len(config.patrones) : search(config.patrones[i], texto_lower)}))

PuntuacionesClasificador(texto_lower) == [i \in 1..Len(CategoriasClasificador) |-> PuntuacionClasificador(CategoriasClasificador[i], texto_lower)]

\* max(puntuaciones, key=puntuaciones.get): the first of the best
IndiceDeLaMayor(puntuaciones) == CHOOSE i \in 1..Len(puntuaciones) : (\A j \in 1..Len(puntuaciones) : puntuaciones[j] <= puntuaciones[i]) /\ (\A j \in 1..(i - 1) : puntuaciones[j] < puntuaciones[i])

Mayor(a, b) == IF a >= b THEN a ELSE b

_resultado_clasificacion_vacio(ahora) == [categoria |-> "otros", confianza |-> 10, puntuaciones_todas |-> <<>>, metodo |-> "clasificacion_simplificada", timestamp |-> ahora]

\* lines 71-85 of clasificar_denuncia (palabras_clave_encontradas, which
\* nothing here reads, is left out of the dict)
ClasificacionSegunPuntuaciones(puntuaciones, ahora) ==
    IF \A i \in 1..Len(puntuaciones) : puntuaciones[i] = 0
    THEN [categoria |-> "otros", confianza |-> 30, puntuaciones_todas |-> puntuaciones, metodo |-> "clasificacion_simplificada", timestamp |-> ahora]
    ELSE [categoria |-> CategoriasClasificador[IndiceDeLaMayor(puntuaciones)].nombre, confianza |-> Min(95, Mayor(10, puntuaciones[IndiceDeLaMayor(puntuaciones)])), puntuaciones_todas |-> puntuaciones, metodo |-> "clasificacion_simplificada", timestamp |-> ahora]

clasificar_denuncia(mensaje, ahora) == IF mensaje = "" THEN _resultado_clasificacion_vacio(ahora) ELSE ClasificacionSegunPuntuaciones(PuntuacionesClasificador(lower(limpiar_texto(mensaje))), ahora)

\* what a call does: it returns a value or an exception leaves it
Retorna(valor) == [termina |-> "return", valor |-> valor]
Lanza(excepcion) == [termina |-> "raise", valor |-> [excepcion |-> excepcion]]

\* UtilsTexto.calcular_confianza_basica(factores), factores being the items
\* <<key, value>> of the dict.  The generator of line 118 unpacks each item
\* as (valor, peso): valor is the key, a str, and peso the value, a float,
\* and valor * peso of a str and a float raises TypeError at the first item.
calcular_confianza_basica(factores) == IF Len(factores) = 0 THEN Retorna(50) ELSE IF Suma([i \in 1..Len(factores) |-> factores[i][2]]) = 0 THEN Retorna(50) ELSE Lanza("TypeError")

\* lines 98-104: the factor of the length in words
FactorLongitud(longitud) == IF longitud < 5 THEN 20 ELSE IF longitud > 50 THEN 90 ELSE 50 + longitud

\* the patterns of lines 108, 110 and 112
PatronFechaCompleta == <<Rep(Digitos, 1, 2), Lit("/"), Rep(Digitos, 1, 2), Lit("/"), Rep(Digitos, 4, 4)>>
LetrasAZ == Caracteres("ABCDEFGHIJKLMNOPQRSTUVWXYZ")
Letrasaz == Caracteres("abcdefghijklmnopqrstuvwxyz")
PatronNombrePropio == <<Rep(LetrasAZ, 1, 1), Rep(Letrasaz, 1, -1), Rep(Espacios, 1, -1), Rep(LetrasAZ, 1, 1), Rep(Letrasaz, 1, -1)>>
PatronLugar == <<Lit("en"), Rep(Espacios, 1, -1), Rep(LetrasAZ, 1, 1), Rep(Letrasaz, 1, -1)>>

\* lines 107-115
FactorEspecificidad(mensaje) == Min(100, 50 + (IF search(PatronFechaCompleta, mensaje) THEN 20 ELSE 0) + (IF search(PatronNombrePropio, mensaje) THEN 15 ELSE 0) + (IF search(PatronLugar, mensaje) THEN 10 ELSE 0))

\* lines 95-118: the dict factores, as its items in order
FactoresDeVeracidad(mensaje) == << <<"longitud", FactorLongitud(Len(split(limpiar_texto(mensaje))))>>, <<"especificidad", FactorEspecificidad(mensaje)>>, <<"coherencia", 70>> >>

\* lines 123-129
NivelDeVeracidad(confianza_veracidad) == IF confianza_veracidad >= 70 THEN "ALTA" ELSE IF confianza_veracidad >= 40 THEN "MEDIA" ELSE "BAJA"

_resultado_veracidad_vacio(ahora) == [nivel_veracidad |-> "BAJA", confianza |-> 10, factores_analizados |-> <<>>, metodo |-> "analisis_simplificado", timestamp |-> ahora]

\* lines 121-137, with the outcome of calcular_confianza_basica passed on:
\* an exception it raises leaves analizar_veracidad too
VeracidadSegunConfianza(factores, llamada, ahora) == IF llamada.termina = "raise" THEN llamada ELSE Retorna([nivel_veracidad |-> NivelDeVeracidad(llamada.valor), confianza |-> llamada.valor, factores_analizados |-> factores, metodo |-> "analisis_simplificado", timestamp |-> ahora])

analizar_veracidad(mensaje, ahora) == IF mensaje = "" THEN Retorna(_resultado_veracidad_vacio(ahora)) ELSE VeracidadSegunConfianza(FactoresDeVeracidad(mensaje), calcular_confianza_basica(FactoresDeVeracidad(mensaje)), ahora)

\* AgenteIABase.procesar_denuncia_completo on an agent of the class nombre
\* with the given estadisticas: the returned dict and the estadisticas afterwards.
\* clasificar_denuncia raises nothing on a str; an exception of
\* analizar_veracidad is caught at line 58.
ProcesadoSegunVeracidad(nombre, estadisticas, clasificacion, veracidad, ahora) ==
    IF veracidad.termina = "raise"
    THEN [devuelve |-> [timestamp |-> ahora, agente_usado |-> nombre, error |-> veracidad.valor.excepcion, procesamiento_exitoso |-> FALSE],
          estadisticas |-> [estadisticas EXCEPT !.errores_encontrados = @ + 1]]
    ELSE [devuelve |-> [timestamp |-> ahora, agente_usado |-> nombre, clasificacion |-> clasificacion, veracidad |-> veracidad.valor, procesamiento_exitoso |-> TRUE],
          estadisticas |-> [estadisticas EXCEPT !.clasificaciones_realizadas = @ + 1, !.analisis_realizados = @ + 1]]

procesar_denuncia_completo(estadisticas, mensaje, ahora) == ProcesadoSegunVeracidad("ClasificadorSimplificado", estadisticas, clasificar_denuncia(mensaje, ahora), analizar_veracidad(mensaje, ahora), ahora)

\* AgenteIABase.__init__, lines 19-23
EstadisticasIniciales == [clasificaciones_realizadas |-> 0, analisis_realizados |-> 0, errores_encontrados |-> 0]

\* no call of procesar_denuncia_completo yet
SinProcesamiento == [llamada |-> FALSE, mensaje |-> "", antes |-> EstadisticasIniciales, devuelve |-> [procesamiento_exitoso |-> FALSE]]

\* all that a call of the local pipeline leaves alone
FueraDelClasificador == <<varsMotor, varsHilos, validacion, gestor, gestion, denuncias, archivo, registro, cambio, roles, autenticacion>>

\* ---- agente_ia_simple/agente_openai.py and gestor.py ----

\* What the OpenAI service does with one request: the call raises, or it
\* answers with a JSON text.
RespuestasOpenAI == {[ok |-> FALSE, categoria |-> "", nivel_veracidad |-> "", confianza |-> 0], [ok |-> TRUE, categoria |-> "acoso", nivel_veracidad |-> "ALTA", confianza |-> 85]}

\* AgenteOpenAISimplificado.clasificar_denuncia (error_openai, which nothing
\* here reads, is left out of the dict)
clasificar_denuncia_openai(openai_disponible, respuesta, mensaje, ahora) ==
    IF openai_disponible /\ respuesta.ok
    THEN [categoria |-> respuesta.categoria, confianza |-> respuesta.confianza, metodo |-> "openai_gpt35", timestamp |-> ahora]
    ELSE [clasificar_denuncia(mensaje, ahora) EXCEPT !.metodo = IF openai_disponible THEN "local_error_fallback" ELSE "local_fallback"]

\* AgenteOpenAISimplificado.analizar_veracidad: an exception of the analysis
\* of the parent class, called in the handler of line 126, leaves the call
analizar_veracidad_openai(openai_disponible, respuesta, mensaje, ahora) ==
    IF openai_disponible /\ respuesta.ok
    THEN Retorna([nivel_veracidad |-> respuesta.nivel_veracidad, confianza |-> respuesta.confianza, metodo |-> "openai_veracidad", timestamp |-> ahora])
    ELSE analizar_veracidad(mensaje, ahora)

\* procesar_denuncia_completo on an AgenteOpenAISimplificado
procesar_denuncia_completo_openai(agente_openai, clasifica, analiza, mensaje, ahora) == ProcesadoSegunVeracidad("AgenteOpenAISimplificado", agente_openai.estadisticas, clasificar_denuncia_openai(agente_openai.openai_disponible, clasifica, mensaje, ahora), analizar_veracidad_openai(agente_openai.openai_disponible, analiza, mensaje, ahora), ahora)

\* self.agente_openai is None
SinAgenteOpenAI == [hay |-> FALSE, openai_disponible |-> FALSE, estadisticas |-> EstadisticasIniciales]

\* AgenteOpenAISimplificado(api_key): openai_disponible when the openai
\* library can be imported and the key is not empty
AgenteOpenAISimplificado(api_key, importable) == [hay |-> TRUE, openai_disponible |-> importable /\ api_key # "", estadisticas |-> EstadisticasIniciales]

\* GestorAgenteIASimplificado(api_key_openai); "None" stands for None
GestorConstruido(api_key_openai, importable) ==
    IF api_key_openai \in {"None", ""}
    THEN [modo |-> "local", agente_local |-> EstadisticasIniciales, agente_openai |-> SinAgenteOpenAI]
    ELSE [modo |-> "hibrido", agente_local |-> EstadisticasIniciales, agente_openai |-> AgenteOpenAISimplificado(api_key_openai, importable)]

\* lines 36-50 of procesar_denuncia: the agent selected and modo_usado
AgenteSeleccionado(self, mensaje, forzar_modo) ==
    IF forzar_modo = "local" \/ ~self.agente_openai.hay THEN [agente |-> "agente_local", modo_usado |-> "local"]
    ELSE IF forzar_modo = "openai" /\ self.agente_openai.hay THEN [agente |-> "agente_openai", modo_usado |-> "openai"]
    ELSE IF Len(split(mensaje)) > 20 THEN [agente |-> "agente_openai", modo_usado |-> "openai_complejo"]
    ELSE [agente |-> "agente_local", modo_usado |-> "local_simple"]

_resultado_mensaje_vacio(ahora) == [error |-> "Mensaje vacío", procesamiento_exitoso |-> FALSE, modo_procesamiento |-> "validacion", timestamp |-> ahora]

\* lines 52-57, with the outcome of procesar_denuncia_completo passed on:
\* the dict returned and the gestor afterwards.  The handler of line 59 is
\* never entered: procesar_denuncia_completo catches every Exception itself.
ProcesadoPorSeleccionado(self, seleccion, procesado) == [devuelve |-> [campo \in DOMAIN procesado.devuelve \cup {"modo_procesamiento", "gestor_version"} |-> IF campo = "modo_procesamiento" THEN seleccion.modo_usado ELSE IF campo = "gestor_version" THEN "simplificado_v2.0" ELSE procesado.devuelve[campo]], self |-> IF seleccion.agente = "agente_local" THEN [self EXCEPT !.agente_local = procesado.estadisticas] ELSE [self EXCEPT !.agente_openai.estadisticas = procesado.estadisticas]]

ProcesarConSeleccionado(self, seleccion, clasifica, analiza, mensaje, ahora) == ProcesadoPorSeleccionado(self, seleccion, IF seleccion.agente = "agente_local" THEN procesar_denuncia_completo(self.agente_local, mensaje, ahora) ELSE procesar_denuncia_completo_openai(self.agente_openai, clasifica, analiza, mensaje, ahora))

\* GestorAgenteIASimplificado.procesar_denuncia
procesar_denuncia(self, mensaje, forzar_modo, clasifica, analiza, ahora) == IF mensaje = "" \/ strip(mensaje) = "" THEN [devuelve |-> _resultado_mensaje_vacio(ahora), self |-> self] ELSE ProcesarConSeleccionado(self, AgenteSeleccionado(self, mensaje, forzar_modo), clasifica, analiza, mensaje, ahora)

\* GestorAgenteIASimplificado.cambiar_modo
cambiar_modo(self, nuevo_modo) ==
    IF nuevo_modo = "local" THEN [devuelve |-> TRUE, self |-> [self EXCEPT !.modo = "local"]]
    ELSE IF nuevo_modo = "openai" /\ self.agente_openai.hay THEN [devuelve |-> TRUE, self |-> [self EXCEPT !.modo = "openai"]]
    ELSE IF nuevo_modo = "hibrido" /\ self.agente_openai.hay THEN [devuelve |-> TRUE, self |-> [self EXCEPT !.modo = "hibrido"]]
    ELSE [devuelve |-> FALSE, self |-> self]

\* GestorAgenteIASimplificado.configurar_openai: the constructor of the
\* agent raises nothing
configurar_openai(self, api_key, importable) == [devuelve |-> TRUE, self |-> [self EXCEPT !.agente_openai = AgenteOpenAISimplificado(api_key, importable), !.modo = "hibrido"]]

\* no call on the gestor yet.  cambiado_a records the mode that the last
\* cambiar_modo that returned True set, while no other call has set the mode
\* since, and "" otherwise.
SinGestion == [operacion |-> "ninguna", mensaje |-> "", forzar_modo |-> "None", nuevo_modo |-> "", modo_antes |-> "", devuelve |-> [procesamiento_exitoso |-> FALSE], cambiado_a |-> ""]

\* all that a call on the gestor leaves alone
FueraDelGestor == <<varsMotor, varsHilos, validacion, clasificador, procesamiento, denuncias, archivo, registro, cambio, roles, autenticacion>>

\* ---- core/gestor_denuncias.py and interfaces/gestor_estados.py ----
\* A complaint is a dict: a function from its keys.  Positions in the list
\* count from 1 here and from 0 in the code.

\* d.get(clave, defecto)
Get(d, clave, defecto) == IF clave \in DOMAIN d THEN d[clave] ELSE defecto

\* d[clave] = valor
Poner(d, clave, valor) == (clave :> valor) @@ d

\* GestorDenuncias._clasificacion_basica
AlgunaPalabraEn(mensaje_lower, palabras) == \E i \in 1..Len(palabras) : Contiene(mensaje_lower, palabras[i])

ClasificacionBasicaDe(mensaje_lower) ==
    IF AlgunaPalabraEn(mensaje_lower, <<"acoso", "hostigamiento", "molesta">>) THEN "acoso"
    ELSE IF AlgunaPalabraEn(mensaje_lower, <<"discrimina", "discriminación", "raza", "género">>) THEN "discriminacion"
    ELSE IF AlgunaPalabraEn(mensaje_lower, <<"dinero", "soborno", "corrupción">>) THEN "corrupcion"
    ELSE IF AlgunaPalabraEn(mensaje_lower, <<"sistema", "error", "falla", "técnico">>) THEN "problemas_tecnicos"
    ELSE "otros"

_clasificacion_basica(mensaje) == ClasificacionBasicaDe(lower(mensaje))

\* The file archivo_datos: absent, or holding the text that json.dump wrote
\* of a list (which json.load would read back as the same list of dicts of
\* strings, booleans and lists), or cut short by a write that failed.
ArchivoAusente == [existe |-> FALSE, entero |-> FALSE, contenido |-> <<>>]
ArchivoCon(lista) == [existe |-> TRUE, entero |-> TRUE, contenido |-> lista]
ArchivoCortado == [existe |-> TRUE, entero |-> FALSE, contenido |-> <<>>]

\* What a write of the file can do: succeed, fail in open() before the file
\* is touched, or fail in json.dump after open() has emptied it.
Escrituras == {"ok", "falla_open", "falla_dump"}

\* GestorDenuncias._guardar_denuncias: what it returns and the file after it
_guardar_denuncias(lista, fichero, escritura) ==
    IF escritura = "ok" THEN [devuelve |-> TRUE, archivo |-> ArchivoCon(lista)]
    ELSE IF escritura = "falla_open" THEN [devuelve |-> FALSE, archivo |-> fichero]
    ELSE [devuelve |-> FALSE, archivo |-> ArchivoCortado]

\* lines 60-66 of registrar_denuncia; id is what _generar_id returned
DenunciaCreada(mensaje, id, ahora) == [id |-> id, mensaje |-> strip(mensaje), timestamp |-> ahora, categoria |-> _clasificacion_basica(mensaje), procesada_con_ia |-> FALSE]

\* lines 69-84, with the complaint and the outcome of the write passed on
RegistradaSegunEscritura(lista, denuncia, guardado, ahora) ==
    IF guardado.devuelve
    THEN [devuelve |-> [exito |-> TRUE, id_denuncia |-> denuncia.id, categoria |-> denuncia.categoria, timestamp |-> denuncia.timestamp, procesada_con_ia |-> FALSE], denuncias |-> lista, archivo |-> guardado.archivo]
    ELSE [devuelve |-> [exito |-> FALSE, error |-> "Error guardando datos", timestamp |-> ahora], denuncias |-> lista, archivo |-> guardado.archivo]

\* GestorDenuncias.registrar_denuncia: what it returns, the list and the file
\* after it
registrar_denuncia(lista, fichero, mensaje, id, escritura, ahora) ==
    IF mensaje = "" \/ strip(mensaje) = ""
    THEN [devuelve |-> [exito |-> FALSE, error |-> "Mensaje vacío", timestamp |-> ahora], denuncias |-> lista, archivo |-> fichero]
    ELSE RegistradaSegunEscritura(Append(lista, DenunciaCreada(mensaje, id, ahora)), DenunciaCreada(mensaje, id, ahora), _guardar_denuncias(Append(lista, DenunciaCreada(mensaje, id, ahora)), fichero, escritura), ahora)

\* the members of EstadoDenuncia, in the order of the class, by value
EstadoDenuncia == <<"nueva", "revisada", "en_proceso", "resuelta", "archivada">>

\* the names that hasattr finds on a GestorDenuncias
AtributosDeGestorDenuncias == {"archivo_datos", "denuncias", "_cargar_denuncias", "_guardar_denuncias", "registrar_denuncia", "obtener_estadisticas", "obtener_info_agente_ia", "configurar_agente_ia", "_generar_id", "_clasificacion_basica"}

\* lines 231-250 of _ejecutar_cambio_estado: the complaint after them
DenunciaCambiada(denuncia, nuevo_estado, comentario, ahora) == Poner(Poner(Poner(denuncia, "estado", nuevo_estado), "ultima_modificacion", ahora), "historial_estados", Append(Get(denuncia, "historial_estados", <<>>), [timestamp |-> ahora, estado_anterior |-> Get(denuncia, "estado", "nueva"), estado_nuevo |-> nuevo_estado, comentario |-> comentario, usuario |-> "administrador"]))

\* GestorEstados._ejecutar_cambio_estado on the complaint at indice, which is
\* the very dict that the list of the GestorDenuncias holds: the list and the
\* file after it.  The file is written when the GestorDenuncias has a
\* guardar_denuncias.
_ejecutar_cambio_estado(lista, fichero, indice, nuevo_estado, comentario, escritura, ahora) ==
    [denuncias |-> [lista EXCEPT ![indice] = DenunciaCambiada(lista[indice], nuevo_estado, comentario, ahora)],
     archivo |-> IF "guardar_denuncias" \in AtributosDeGestorDenuncias THEN _guardar_denuncias([lista EXCEPT ![indice] = DenunciaCambiada(lista[indice], nuevo_estado, comentario, ahora)], fichero, escritura).archivo ELSE fichero]

\* int(texto): whitespace around, an optional sign and decimal digits, or
\* ValueError
ValorDeDigito(c) == CHOOSE d \in 0..9 : SubSeq("0123456789", d + 1, d + 1) = c

RECURSIVE ValorDeDigitos(_)
ValorDeDigitos(t) == IF Len(t) = 0 THEN 0 ELSE 10 * ValorDeDigitos(SubSeq(t, 1, Len(t) - 1)) + ValorDeDigito(SubSeq(t, Len(t), Len(t)))

SonDigitos(t) == Len(t) > 0 /\ \A i \in 1..Len(t) : SubSeq(t, i, i) \in Digitos

EnteroSinEspacios(t) ==
    IF SonDigitos(t) THEN Retorna(ValorDeDigitos(t))
    ELSE IF Len(t) > 1 /\ SubSeq(t, 1, 1) = "+" /\ SonDigitos(SubSeq(t, 2, Len(t))) THEN Retorna(ValorDeDigitos(SubSeq(t, 2, Len(t))))
    ELSE IF Len(t) > 1 /\ SubSeq(t, 1, 1) = "-" /\ SonDigitos(SubSeq(t, 2, Len(t))) THEN Retorna(0 - ValorDeDigitos(SubSeq(t, 2, Len(t))))
    ELSE Lanza("ValueError")

int(texto) == EnteroSinEspacios(strip(texto))

\* lines 196-202 of _cambiar_estado_individual: the lines printed, each the
\* number i of enumerate(EstadoDenuncia, 1) and the state beside it ...
LineasImpresas(estado_actual) == SelectSeq([i \in 1..Len(EstadoDenuncia) |-> [numero |-> i, estado |-> EstadoDenuncia[i]]], LAMBDA linea : linea.estado # estado_actual)

\* ... and the list estados_validos
EstadosValidos(estado_actual) == SelectSeq(EstadoDenuncia, LAMBDA estado : estado # estado_actual)

\* line 216
Confirma(confirmar) == lower(strip(confirmar)) \in {"s", "si", "sí", "y", "yes"}

\* lines 204-225, with estados_validos and int(input()) passed on: the state
\* selected when the change is executed, "" when it is not
EstadoElegido(estados_validos, entero, confirmar) ==
    IF entero.termina = "raise" THEN ""
    ELSE IF 0 <= entero.valor - 1 /\ entero.valor - 1 < Len(estados_validos) THEN (IF Confirma(confirmar) THEN estados_validos[entero.valor] ELSE "")
    ELSE ""

\* GestorEstados._cambiar_estado_individual: the list and the file after it
CambiadaSiElegido(lista, fichero, indice, nuevo_estado, comentario, escritura, ahora) == IF nuevo_estado = "" THEN [denuncias |-> lista, archivo |-> fichero] ELSE _ejecutar_cambio_estado(lista, fichero, indice, nuevo_estado, strip(comentario), escritura, ahora)

_cambiar_estado_individual(lista, fichero, indice, seleccion, comentario, confirmar, escritura, ahora) == CambiadaSiElegido(lista, fichero, indice, EstadoElegido(EstadosValidos(Get(lista[indice], "estado", "nueva")), int(seleccion), confirmar), comentario, escritura, ahora)

\* no call of registrar_denuncia yet.  llamadas is the record of the calls
\* made so far, in order: the message, the id generated and the exito returned.
SinRegistro == [llamada |-> FALSE, mensaje |-> "", antes |-> <<>>, devuelve |-> [exito |-> FALSE], llamadas |-> <<>>]

\* no call on the GestorEstados yet.  ejecutados is the record of the
\* _ejecutar_cambio_estado calls made so far, in order: the position of the
\* complaint, the state it had on entry and the state asked for.
SinCambio == [operacion |-> "ninguna", indice |-> 0, antes |-> <<>>, impreso |-> <<>>, entero |-> Lanza("ValueError"), confirmado |-> FALSE, nuevo_estado |-> "", ejecutados |-> <<>>]

\* all that a call on the GestorDenuncias or on the GestorEstados leaves alone
FueraDeDenuncias == <<varsMotor, varsHilos, validacion, clasificador, procesamiento, gestor, gestion, roles, autenticacion>>

\* ---- auth/gestor_roles.py, utils/validators.py, config/settings.py ----

\* ConfiguracionSistema.AUTENTICACION
intentos_maximos == 3
credenciales_por_defecto == [usuario |-> "admin", password |-> "admin123"]

\* GestorRoles._generar_hash: the SHA-256 digest of the password, taken to be
\* different for different passwords
_generar_hash(password) == <<"sha256", password>>

\* re.match(r'^[a-zA-Z0-9_]+$', usuario): $ also matches before a newline
\* that ends the text
LetrasNumerosGuion == LetrasAZ \cup Letrasaz \cup Digitos \cup {"_"}

SoloLetrasNumerosGuion(t) == Len(t) > 0 /\ \A i \in 1..Len(t) : SubSeq(t, i, i) \in LetrasNumerosGuion

FormatoDeUsuario(usuario) == SoloLetrasNumerosGuion(usuario) \/ (Len(usuario) > 1 /\ SubSeq(usuario, Len(usuario), Len(usuario)) = "\n" /\ SoloLetrasNumerosGuion(SubSeq(usuario, 1, Len(usuario) - 1)))

\* ValidadorEntrada.validar_credenciales: es_valido
validar_credenciales(usuario, password) ==
    IF usuario = "" \/ password = "" THEN FALSE
    ELSE IF Len(password) < 6 THEN FALSE
    ELSE IF ~FormatoDeUsuario(usuario) THEN FALSE
    ELSE IF Len(usuario) < 3 THEN FALSE
    ELSE IF Len(usuario) > 20 THEN FALSE
    ELSE TRUE

\* ValidadorEntrada.validar_confirmacion
validar_confirmacion(respuesta) == lower(strip(respuesta)) \in {"s", "sí", "si", "y", "yes", "1"}

\* a variant of _verificar_credenciales that compares the user name only
_verificar_solo_usuario(credenciales_admin, usuario, password) == usuario = credenciales_admin.usuario

\* GestorRoles._verificar_credenciales
_verificar_credenciales(credenciales_admin, usuario, password) == usuario = credenciales_admin.usuario /\ _generar_hash(password) = credenciales_admin.password_hash

\* a datetime
Momento(ahora) == [tipo |-> "datetime", valor |-> ahora]

\* the info_sesion of lines 32-36 and 238-242
InfoSesionVacia == [hora_inicio |-> None, ultimo_acceso |-> None, acciones_realizadas |-> <<>>]

\* GestorRoles.__init__
RolesConstruidos == [credenciales_admin |-> [usuario |-> credenciales_por_defecto.usuario, password_hash |-> _generar_hash(credenciales_por_defecto.password)], usuario_actual |-> "anonimo", sesion_activa |-> FALSE, intentos_fallidos |-> 0, info_sesion |-> InfoSesionVacia]

\* GestorRoles._activar_sesion_administrador
_activar_sesion_administrador(self, ahora) == [self EXCEPT !.usuario_actual = "administrador", !.sesion_activa = TRUE, !.intentos_fallidos = 0, !.info_sesion = [hora_inicio |-> Momento(ahora), ultimo_acceso |-> Momento(ahora), acciones_realizadas |-> <<"login_exitoso">>]]

\* GestorRoles._limpiar_estado_sesion
_limpiar_estado_sesion(self) == [self EXCEPT !.usuario_actual = "anonimo", !.sesion_activa = FALSE, !.intentos_fallidos = 0, !.info_sesion = InfoSesionVacia]

\* GestorRoles._registrar_cierre_sesion
_registrar_cierre_sesion(self) == IF Len(self.info_sesion.acciones_realizadas) > 0 THEN [self EXCEPT !.info_sesion.acciones_realizadas = Append(@, "logout")] ELSE self

\* GestorRoles.cerrar_sesion
cerrar_sesion(self) == _limpiar_estado_sesion(IF self.sesion_activa THEN _registrar_cierre_sesion(self) ELSE self)

\* GestorRoles.registrar_accion
registrar_accion(self, accion, ahora) == IF self.sesion_activa THEN [self EXCEPT !.info_sesion.ultimo_acceso = Momento(ahora), !.info_sesion.acciones_realizadas = Append(@, accion)] ELSE self

\* GestorRoles.verificar_permiso, through GestorPermisos.obtener_permisos:
\* the administrator has every permission of Permisos, the anonymous user
\* enviar_denuncia alone
PermisosDe(usuario_actual) == IF usuario_actual = "administrador" THEN {"enviar_denuncia", "ver_estadisticas", "generar_reportes", "configurar_sistema", "gestionar_agente_ia", "acceso_completo", "cambiar_credenciales"} ELSE {"enviar_denuncia"}

verificar_permiso(self, permiso_requerido) == IF ~self.sesion_activa /\ self.usuario_actual = "administrador" THEN FALSE ELSE permiso_requerido \in PermisosDe(self.usuario_actual)

\* GestorRoles.cambiar_credenciales; confirmacion is what is typed at the
\* prompt of _confirmar_cambio_credenciales
cambiar_credenciales(self, nuevo_usuario, nueva_password, confirmacion, ahora) ==
    IF ~verificar_permiso(self, "cambiar_credenciales") THEN [devuelve |-> FALSE, self |-> self]
    ELSE IF ~validar_credenciales(nuevo_usuario, nueva_password) THEN [devuelve |-> FALSE, self |-> self]
    ELSE IF ~validar_confirmacion(lower(strip(confirmacion))) THEN [devuelve |-> FALSE, self |-> self]
    ELSE [devuelve |-> TRUE, self |-> registrar_accion([self EXCEPT !.credenciales_admin = [usuario |-> nuevo_usuario, password_hash |-> _generar_hash(nueva_password)]], "credenciales_cambiadas_a_" \o nuevo_usuario, ahora)]

\* What can happen while _procesar_intento_autenticacion runs: nothing,
\* Ctrl+C at one of the two prompts, Ctrl+C during the pause after a failed
\* attempt, or an error of input() such as the end of the input.
EventosDeIntento == {"ninguno", "ctrl_c_en_input", "ctrl_c_en_pausa", "error_en_input"}

\* whether the attempt reaches _pausar_entre_intentos: after credentials of
\* a wrong format, and after wrong credentials when attempts remain
HayPausa(self, usuario, password, intento) == ~validar_credenciales(usuario, password) \/ (~_verificar_credenciales(self.credenciales_admin, usuario, password) /\ intentos_maximos - intento > 0)

\* GestorRoles._procesar_intento_autenticacion with usuario and password as
\* stripped at lines 106-107: how the call ends ("True", "False" or the
\* exception that leaves it) and the attributes after it
IntentoProcesado(self, usuario, password, evento, intento) ==
    IF evento = "ctrl_c_en_input" THEN [termina |-> "KeyboardInterrupt", self |-> self]
    ELSE IF evento = "error_en_input" THEN [termina |-> "Exception", self |-> self]
    ELSE IF ~validar_credenciales(usuario, password) THEN [termina |-> IF evento = "ctrl_c_en_pausa" THEN "KeyboardInterrupt" ELSE "False", self |-> self]
    ELSE IF _verificar_credenciales(self.credenciales_admin, usuario, password) THEN [termina |-> "True", self |-> self]
    ELSE [termina |-> IF evento = "ctrl_c_en_pausa" /\ intentos_maximos - intento > 0 THEN "KeyboardInterrupt" ELSE "False", self |-> [self EXCEPT !.intentos_fallidos = @ + 1]]

_procesar_intento_autenticacion(self, usuario_tecleado, password_tecleada, evento, intento) == IntentoProcesado(self, strip(usuario_tecleado), strip(password_tecleada), evento, intento)

\* one turn of the loop of autenticar_administrador, lines 69-83, with the
\* outcome of the attempt passed on: whether the call goes on with another
\* attempt or returns, what it returns, and the attributes after it
VueltaSegunIntento(procesado, intento, ahora) ==
    IF procesado.termina = "True" THEN [sigue |-> FALSE, devuelve |-> TRUE, self |-> _activar_sesion_administrador(procesado.self, ahora)]
    ELSE IF procesado.termina = "KeyboardInterrupt" THEN [sigue |-> FALSE, devuelve |-> FALSE, self |-> procesado.self]
    ELSE IF intento < intentos_maximos THEN [sigue |-> TRUE, devuelve |-> FALSE, self |-> procesado.self]
    ELSE [sigue |-> FALSE, devuelve |-> FALSE, self |-> procesado.self]

\* no call of autenticar_administrador yet.  intentos is the record of the
\* attempts of the call: what was typed at the two prompts, when both were
\* answered, and what happened meanwhile; credenciales is what was stored when
\* the call began, desde the user it began with and al_volver the user and
\* the session as the call returned.
SinAutenticacion == [pc |-> "fuera", terminada |-> FALSE, intento |-> 0, intentos |-> <<>>, credenciales |-> RolesConstruidos.credenciales_admin, desde |-> "anonimo", devuelve |-> FALSE, al_volver |-> [usuario_actual |-> "anonimo", sesion_activa |-> FALSE]]

\* all that a call on the GestorRoles leaves alone
FueraDeRoles == <<varsMotor, varsHilos, validacion, clasificador, procesamiento, gestor, gestion, denuncias, archivo, registro, cambio>>

Init ==
    /\ reloj = 0
    /\ semilla \in 0..MaxSemilla
    /\ entrada = NoEntrada
    /\ resultado = NoLlamada
    /\ previa = NoEntrada
    /\ resultadoPrevio = NoLlamada
    /\ relacion = "ninguna"
    /\ agente = AgenteConstruido
    /\ hilos = [h \in Hilos |-> MarcoLibre]
    /\ validacion = SinValidacion
    /\ clasificador = EstadisticasIniciales
    /\ procesamiento = SinProcesamiento
    /\ gestor = GestorConstruido("None", FALSE)
    /\ gestion = SinGestion
    /\ denuncias = <<>>
    /\ archivo = ArchivoAusente
    /\ registro = SinRegistro
    /\ cambio = SinCambio
    /\ roles = RolesConstruidos
    /\ autenticacion = SinAutenticacion

(***************************************************************************)
(* Calls derived from the call before them.                                *)
(***************************************************************************)
\* the text of the last call with one more urgency keyword at its end,
\* glued to the text or after a space
AnadirPalabra ==
    /\ entrada.tipo = "str"
    /\ \E k \in Elementos(palabras_criticas), sep \in Separadores :
          Seguir(Str(entrada.valor \o sep \o k),
                 IF sep = "" THEN "palabra_pegada" ELSE "palabra_separada")

\* where whitespace can be added without splitting a word: before the text,
\* after it, or next to whitespace it already holds
LugaresDeEspacio(t) ==
    {p \in 0..Len(t) : \/ p = 0
                       \/ p = Len(t)
                       \/ SubSeq(t, p, p) \in Espacios
                       \/ SubSeq(t, p + 1, p + 1) \in Espacios}

Insertar(t, p, e) == SubSeq(t, 1, p) \o e \o SubSeq(t, p + 1, Len(t))

\* the text of the last call with one more whitespace character
AnadirEspacio ==
    /\ entrada.tipo = "str"
    /\ \E p \in LugaresDeEspacio(entrada.valor), e \in Espacios :
          Seguir(Str(Insertar(entrada.valor, p, e)), "espaciada")

\* a text: a term between what comes before it and what comes after it
Componer(antes, termino, despues) ==
    (IF antes = "" THEN "" ELSE antes \o " ") \o termino
      \o (IF despues = "" THEN "" ELSE " " \o despues)

\* terms of patrones_categorias['acoso_laboral'] and of
\* patrones_categorias['corrupcion']
TerminosAcoso == {"acoso", "hostigamiento", "intimidación", "jefe", "laboral", "oficina"}
TerminosSoborno == {"soborno", "coima", "nepotismo", "tráfico de influencias", "ilegal"}

VocabularioMarco == {"ayer", "Mi jefe", "el trabajador", "con un arma"}
Marcos == Frases(VocabularioMarco, MaxPiezas - 1)

AnalizarAcoso ==
    \E antes \in Marcos, despues \in Marcos, t \in TerminosAcoso :
        Analizar(Str(Componer(antes, t, despues)))

\* the text of the last call with its harassment term replaced by a bribery term
CambiarVocabulario ==
    \E antes \in Marcos, despues \in Marcos, t \in TerminosAcoso, u \in TerminosSoborno :
        /\ entrada = Str(Componer(antes, t, despues))
        /\ Seguir(Str(Componer(antes, u, despues)), "otro_vocabulario")

(***************************************************************************)
(* Spec: any argument, str or not, analysed once or twice.                 *)
(***************************************************************************)
VocabularioBasico ==
    {"hola", "URGENTE!!!", "amenaza", "Juan vio", "foto", "ayer", "oficina"}

Entradas == {Str(t) : t \in Frases(VocabularioBasico, MaxPiezas)} \cup {None, Entero}

Next ==
    \/ \E arg \in Entradas : Analizar(arg)
    \/ Repetir
    \/ Tic
    \/ NuevoProceso

Spec == Init /\ [][Next]_vars

(***************************************************************************)
(* SpecAlertas: one call, on texts built to reach every alert trigger.     *)
(***************************************************************************)
EscenarioAmenaza ==
    "URGENTE!!! Me amenazó con un cuchillo ayer a las 14:30 en la oficina, hay testigos"

VocabularioAlertas ==
    {"hola", "!!!", "HOLA QUE TAL", "pegar", "herir", "acosar", "arma", "amenaza",
     "riesgo", "peligro", "foto video", "testigo"}

EntradasAlertas ==
    {Str(t) : t \in Frases(VocabularioAlertas, MaxPiezas) \cup {EscenarioAmenaza}}

NextAlertas == \E arg \in EntradasAlertas : Analizar(arg)

SpecAlertas == Init /\ [][NextAlertas]_vars

(***************************************************************************)
(* SpecUrgencia: a text, then the same text with one more urgency keyword. *)
(***************************************************************************)
VocabularioUrgencia ==
    {"hola", "arma", "amenaza", "ayuda", "URGENTE", "!!!", "GRITO MUY FUERTE"}

EntradasUrgencia == {Str(t) : t \in Frases(VocabularioUrgencia, MaxPiezas)}

NextUrgencia ==
    \/ \E arg \in EntradasUrgencia : Analizar(arg)
    \/ AnadirPalabra

SpecUrgencia == Init /\ [][NextUrgencia]_vars

(***************************************************************************)
(* SpecEspacios: a text, then the same text with more whitespace.          *)
(***************************************************************************)
VocabularioEspacios ==
    {"hola", "URGENTE!!!", "trato diferente", "sala 3", "foto", "14:30", "amenaza"}

EntradasEspacios == {Str(t) : t \in Frases(VocabularioEspacios, MaxPiezas)}

NextEspacios ==
    \/ \E arg \in EntradasEspacios : Analizar(arg)
    \/ AnadirEspacio

SpecEspacios == Init /\ [][NextEspacios]_vars

(***************************************************************************)
(* SpecCategorias: a text worded with a harassment term, then the same     *)
(* text worded with a bribery term.                                        *)
(***************************************************************************)
NextCategorias ==
    \/ AnalizarAcoso
    \/ CambiarVocabulario

SpecCategorias == Init /\ [][NextCategorias]_vars

(***************************************************************************)
(* SpecSeleccion: one call, on texts built to score no category, one       *)
(* category, several categories alike, and up to all six of them.          *)
(***************************************************************************)
VocabularioSeleccion ==
    {"hola", "intimidación", "miedo", "robo", "riesgo", "golpe", "dinero", "verbal",
     "acoso", "acoso jefe", "acoso robo edad", "riesgo golpe soborno"}

EntradasSeleccion == {Str(t) : t \in Frases(VocabularioSeleccion, MaxPiezas)}

NextSeleccion == \E arg \in EntradasSeleccion : Analizar(arg)

SpecSeleccion == Init /\ [][NextSeleccion]_vars

(***************************************************************************)
(* SpecEvidencias: one call, on texts built to name evidence of every      *)
(* type, hours and numbered places, people, and the factors of the         *)
(* priority, at every urgency tier.                                        *)
(***************************************************************************)
VocabularioEvidencias ==
    {"hola", "foto", "testigo vio", "foto video marca",
     "documento foto video testigo vio dijo", "14:30", "sala 3", "ayer", "todos",
     "prueba", "ayuda", "amenaza arma ayer", "con Juan"}

EntradasEvidencias == {Str(t) : t \in Frases(VocabularioEvidencias, MaxPiezas)}

NextEvidencias == \E arg \in EntradasEvidencias : Analizar(arg)

SpecEvidencias == Init /\ [][NextEvidencias]_vars

(***************************************************************************)
(* SpecAtencion: one call, on texts built to raise alerts of every         *)
(* priority at every urgency tier, a direct threat at the lowest tier      *)
(* included.                                                               *)
(***************************************************************************)
VocabularioAtencion ==
    {"hola", "amenazar", "hacer daño", "lastimar", "amenaza", "arma", "riesgo peligro",
     "foto video testigo", "ayuda", "amenaza arma ayuda", "dinero", "!!!"}

EntradasAtencion == {Str(t) : t \in Frases(VocabularioAtencion, MaxPiezas)}

NextAtencion == \E arg \in EntradasAtencion : Analizar(arg)

SpecAtencion == Init /\ [][NextAtencion]_vars

(***************************************************************************)
(* SpecSentimientos: one call, on texts built to name emotions of every    *)
(* family, from none to more than five of one family.                      *)
(***************************************************************************)
VocabularioSentimientos ==
    {"hola", "miedo", "triste", "harto", "malo", "feliz", "enojado furioso",
     "miedo temor pánico", "ansioso nervioso preocupado", "triste deprimido abatido"}

EntradasSentimientos == {Str(t) : t \in Frases(VocabularioSentimientos, MaxPiezas)}

NextSentimientos == \E arg \in EntradasSentimientos : Analizar(arg)

SpecSentimientos == Init /\ [][NextSentimientos]_vars

(***************************************************************************)
(* SpecSecuencia: a call on a text, then, on the same agent, a call on any *)
(* other text, at the same moment or later.                                *)
(***************************************************************************)
VocabularioSecuencia == {"amenaza", "foto", "miedo"}

EntradasSecuencia == {Str(t) : t \in Frases(VocabularioSecuencia, MaxPiezas)}

\* a second call on the agent, with any argument
OtraLlamada == \E arg \in EntradasSecuencia : Seguir(arg, "otra")

NextSecuencia ==
    \/ \E arg \in EntradasSecuencia : Analizar(arg)
    \/ OtraLlamada
    \/ Tic

SpecSecuencia == Init /\ [][NextSecuencia]_vars

(***************************************************************************)
(* SpecHilos: two callers run analizar_denuncia_completa on one agent,     *)
(* their statements interleaved in every order.                            *)
(***************************************************************************)
\* a variant of AtributosTrasPaso: detectar_urgencia counts its calls in the
\* threshold table of the agent
AtributosConContador(self, paso) ==
    IF paso = "urgencia"
    THEN [self EXCEPT !.umbrales_alerta.urgencia_critica = @ + 1]
    ELSE self

\* the attributes of the agent when a statement of the body is over: no
\* statement, and no method that a statement calls, assigns one
AtributosTrasPaso(self, paso) == self

\* One statement of the body, run by caller h: from the statement desde to
\* the statement hasta, with the frame marco as the statement leaves it.
\* lee tells whether the statement reads an attribute of self; the frame
\* keeps whether every table it has read was a table of the constructor.
Paso(h, desde, hasta, marco, lee) ==
    /\ hilos[h].pc = desde
    /\ hilos' = [hilos EXCEPT ![h] =
                    [marco EXCEPT !.pc = hasta,
                                  !.tablas = IF lee /\ agente # AgenteConstruido
                                             THEN "otras" ELSE @]]
    /\ agente' = AtributosTrasPaso(agente, desde)
    /\ UNCHANGED FueraDeHilos

\* the call: mensaje is bound
Entrar(h, arg) ==
    Paso(h, "libre", "timestamp", [MarcoLibre EXCEPT !.mensaje = arg.valor], FALSE)

\* timestamp = datetime.now().isoformat()
PasoTimestamp(h) ==
    Paso(h, "timestamp", "urgencia", [hilos[h] EXCEPT !.timestamp = reloj], FALSE)

\* urgencia = self.detectar_urgencia(mensaje)
PasoUrgencia(h) ==
    Paso(h, "urgencia", "categoria",
         [hilos[h] EXCEPT !.urgencia = detectar_urgencia(hilos[h].mensaje)], TRUE)

\* categoria = self.sugerir_categoria_mejorada(mensaje)
PasoCategoria(h) ==
    Paso(h, "categoria", "prioridad",
         [hilos[h] EXCEPT !.categoria = sugerir_categoria_mejorada(hilos[h].mensaje)], TRUE)

\* prioridad = self.calcular_prioridad(mensaje, urgencia)
PasoPrioridad(h) ==
    Paso(h, "prioridad", "entidades",
         [hilos[h] EXCEPT !.prioridad = calcular_prioridad(hilos[h].mensaje, hilos[h].urgencia)],
         FALSE)

\* entidades = self.extraer_entidades(mensaje)
PasoEntidades(h) ==
    Paso(h, "entidades", "sentimientos",
         [hilos[h] EXCEPT !.entidades = extraer_entidades(hilos[h].mensaje, semilla)], TRUE)

\* sentimientos = self.analizar_sentimientos(mensaje)
PasoSentimientos(h) ==
    Paso(h, "sentimientos", "evidencias",
         [hilos[h] EXCEPT !.sentimientos = analizar_sentimientos(hilos[h].mensaje)], TRUE)

\* evidencias = self.evaluar_evidencias(mensaje)
PasoEvidencias(h) ==
    Paso(h, "evidencias", "alertas",
         [hilos[h] EXCEPT !.evidencias = evaluar_evidencias(hilos[h].mensaje)], FALSE)

\* alertas = self.generar_alertas(mensaje, urgencia, prioridad)
PasoAlertas(h) ==
    Paso(h, "alertas", "recomendaciones",
         [hilos[h] EXCEPT !.alertas = generar_alertas(hilos[h].mensaje, hilos[h].urgencia,
                                                      hilos[h].prioridad)], TRUE)

\* recomendaciones = self.generar_recomendaciones(urgencia, categoria, evidencias, alertas)
PasoRecomendaciones(h) ==
    Paso(h, "recomendaciones", "return",
         [hilos[h] EXCEPT !.recomendaciones =
             generar_recomendaciones(hilos[h].urgencia, hilos[h].categoria,
                                     hilos[h].evidencias, hilos[h].alertas, semilla)], FALSE)

\* what the return statement hands to a caller with the frame m; what it
\* hands over when a table read on the way was not a table of the
\* constructor is left open
Devolver(m, self) ==
    IF m.tablas = "construidas" /\ self = AgenteConstruido
    THEN [termina |-> "return",
          valor |-> DictResultado(m.mensaje, m.timestamp, m.urgencia, m.categoria, m.prioridad,
                                  m.entidades, m.sentimientos, m.evidencias, m.alertas,
                                  m.recomendaciones)]
    ELSE [termina |-> "return", valor |-> [tablas |-> "otras"]]

\* return {...}
PasoReturn(h) ==
    Paso(h, "return", "fin", [hilos[h] EXCEPT !.resultado = Devolver(hilos[h], agente)], TRUE)

VocabularioHilos == {"amenaza arma", "foto ayer", "miedo en la sala"}

\* the texts the callers pass: the empty one, one that raises alerts, one
\* with evidence and a time, one with an emotion and a place
EntradasHilos == {Str(t) : t \in VocabularioHilos \cup {""}}

NextHilos ==
    \E h \in Hilos :
        \/ \E arg \in EntradasHilos : Entrar(h, arg)
        \/ PasoTimestamp(h)
        \/ PasoUrgencia(h)
        \/ PasoCategoria(h)
        \/ PasoPrioridad(h)
        \/ PasoEntidades(h)
        \/ PasoSentimientos(h)
        \/ PasoEvidencias(h)
        \/ PasoAlertas(h)
        \/ PasoRecomendaciones(h)
        \/ PasoReturn(h)

SpecHilos == Init /\ [][NextHilos]_vars

(***************************************************************************)
(* The menu validator, called with options and lists of valid options of   *)
(* every shape: with whitespace before, after and inside, empty, absent    *)
(* from the list.                                                          *)
(***************************************************************************)
OpcionesTecleadas == {"", " ", "1", " 1", "1 ", " 1 ", "\t2\n", "3", "1 2", " 1 2 ", "2"}

OpcionesDeMenu == {"1", "2", "1 2", ""}

ListasDeOpciones == UNION {[1..n -> OpcionesDeMenu] : n \in 0..MaxOpciones}

\* one call of ValidadorEntrada.validar_opcion_menu
ValidarOpcionMenu(opcion, opciones_validas) ==
    /\ validacion' = [llamada |-> TRUE, opcion |-> opcion, opciones_validas |-> opciones_validas, devuelve |-> validar_opcion_menu(opcion, opciones_validas)]
    /\ UNCHANGED FueraDeValidacion

NextValidador == \E opcion \in OpcionesTecleadas, opciones_validas \in ListasDeOpciones : ValidarOpcionMenu(opcion, opciones_validas)

SpecValidador == Init /\ [][NextValidador]_vars

(***************************************************************************)
(* The local pipeline: procesar_denuncia_completo called on one            *)
(* ClasificadorSimplificado with messages that are empty, blank, short,    *)
(* of middling length and long, with and without dates, names and places.  *)
(***************************************************************************)
VocabularioClasificador == {"me acosa", "Juan Perez", "el 12/03/2024", "en Lima", "no funciona el sistema", "otros", "pide dinero!", "#@"}

RECURSIVE Repetida(_, _)
Repetida(pieza, n) == IF n = 0 THEN "" ELSE pieza \o Repetida(pieza, n - 1)

MensajesClasificador == Frases(VocabularioClasificador, MaxPiezas - 1) \cup {" ", "Juan Perez me acosa en Lima desde el 12/03/2024", Repetida("falla el sistema ", 17), Repetida("pide dinero ", 5)}

\* one call of procesar_denuncia_completo on the classifier
ProcesarDenunciaCompleto(mensaje) ==
    /\ clasificador.clasificaciones_realizadas + clasificador.errores_encontrados < MaxProcesadas
    /\ \E llamada \in {procesar_denuncia_completo(clasificador, mensaje, reloj)} :
           /\ procesamiento' = [llamada |-> TRUE, mensaje |-> mensaje, antes |-> clasificador, devuelve |-> llamada.devuelve]
           /\ clasificador' = llamada.estadisticas
    /\ UNCHANGED FueraDelClasificador

\* ClasificadorSimplificado(): another classifier takes the place of this one
NuevoClasificador ==
    /\ clasificador' = EstadisticasIniciales
    /\ procesamiento' = SinProcesamiento
    /\ UNCHANGED FueraDelClasificador

NextClasificador ==
    \/ \E mensaje \in MensajesClasificador : ProcesarDenunciaCompleto(mensaje)
    \/ NuevoClasificador

SpecClasificador == Init /\ [][NextClasificador]_vars

(***************************************************************************)
(* The gestor: built with or without an API key, its mode changed, OpenAI  *)
(* configured, and complaints of up to and over twenty words processed,    *)
(* with and without forzar_modo.                                           *)
(***************************************************************************)
MensajesGestor == {"", " ", "hola", "me acosa en Lima", Repetida("ya ", 20), Repetida("ya ", 21)}

ModosForzados == {"None", "local", "openai"}

ModosPedidos == {"local", "openai", "hibrido", "automatico"}

ClavesOpenAI == {"", "sk-clave"}

\* the calls that the agents of the gestor have answered
ProcesadasPorGestor == gestor.agente_local.clasificaciones_realizadas + gestor.agente_local.errores_encontrados + gestor.agente_openai.estadisticas.clasificaciones_realizadas + gestor.agente_openai.estadisticas.errores_encontrados

\* one call of procesar_denuncia; the OpenAI service answers each of the two
\* requests of the OpenAI agent or fails
ProcesarDenuncia(mensaje, forzar_modo, clasifica, analiza) ==
    /\ ProcesadasPorGestor < MaxProcesadas - 1
    /\ \E llamada \in {procesar_denuncia(gestor, mensaje, forzar_modo, clasifica, analiza, reloj)} :
           /\ gestor' = llamada.self
           /\ gestion' = [operacion |-> "procesar_denuncia", mensaje |-> mensaje, forzar_modo |-> forzar_modo, nuevo_modo |-> "", modo_antes |-> gestor.modo, devuelve |-> llamada.devuelve, cambiado_a |-> gestion.cambiado_a]
    /\ UNCHANGED FueraDelGestor

\* one call of cambiar_modo
CambiarModo(nuevo_modo) ==
    /\ gestor' = cambiar_modo(gestor, nuevo_modo).self
    /\ gestion' = [operacion |-> "cambiar_modo", mensaje |-> "", forzar_modo |-> "None", nuevo_modo |-> nuevo_modo, modo_antes |-> gestor.modo, devuelve |-> cambiar_modo(gestor, nuevo_modo).devuelve, cambiado_a |-> IF cambiar_modo(gestor, nuevo_modo).devuelve THEN nuevo_modo ELSE gestion.cambiado_a]
    /\ UNCHANGED FueraDelGestor

\* one call of configurar_openai
ConfigurarOpenAI(api_key, importable) ==
    /\ gestor' = configurar_openai(gestor, api_key, importable).self
    /\ gestion' = [operacion |-> "configurar_openai", mensaje |-> "", forzar_modo |-> "None", nuevo_modo |-> "", modo_antes |-> gestor.modo, devuelve |-> configurar_openai(gestor, api_key, importable).devuelve, cambiado_a |-> ""]
    /\ UNCHANGED FueraDelGestor

\* GestorAgenteIASimplificado(api_key_openai): another gestor takes the
\* place of this one
NuevoGestor(api_key_openai, importable) ==
    /\ gestor' = GestorConstruido(api_key_openai, importable)
    /\ gestion' = SinGestion
    /\ UNCHANGED FueraDelGestor

NextGestor ==
    \/ \E mensaje \in MensajesGestor, forzar_modo \in ModosForzados, clasifica \in RespuestasOpenAI, analiza \in RespuestasOpenAI : ProcesarDenuncia(mensaje, forzar_modo, clasifica, analiza)
    \/ \E nuevo_modo \in ModosPedidos : CambiarModo(nuevo_modo)
    \/ \E api_key \in ClavesOpenAI, importable \in BOOLEAN : ConfigurarOpenAI(api_key, importable)
    \/ \E api_key_openai \in ClavesOpenAI \cup {"None"}, importable \in BOOLEAN : NuevoGestor(api_key_openai, importable)

SpecGestor == Init /\ [][NextGestor]_vars

(***************************************************************************)
(* The complaint store and the state manager: complaints registered with   *)
(* messages that are empty, blank and not, while the file can or cannot be *)
(* written, and their states changed by the administrator, who types a     *)
(* number, a comment and a confirmation.                                   *)
(***************************************************************************)
MensajesRegistro == {"", " ", "me acosa ", "falla el sistema"}

IdsGenerados == {"a1b2c3d4", "e5f6a7b8"}

SeleccionesTecleadas == {"", "x", "0", "1", "2", "4", "5", "6", " 2 "}

ComentariosTecleados == {"", " visto "}

ConfirmacionesTecleadas == {"s", " SI ", "n"}

\* the outcomes of a write of the file while states are changed
EscriturasDeEstados == {"ok", "falla_dump"}

\* one call of GestorDenuncias.registrar_denuncia
RegistrarDenuncia(mensaje, id, escritura) ==
    /\ Len(denuncias) < MaxDenuncias
    /\ Len(registro.llamadas) < MaxRegistros
    /\ \E llamada \in {registrar_denuncia(denuncias, archivo, mensaje, id, escritura, reloj)} :
           /\ denuncias' = llamada.denuncias
           /\ archivo' = llamada.archivo
           /\ registro' = [llamada |-> TRUE, mensaje |-> mensaje, antes |-> denuncias, devuelve |-> llamada.devuelve, llamadas |-> Append(registro.llamadas, [mensaje |-> mensaje, id |-> id, exito |-> llamada.devuelve.exito])]
    /\ UNCHANGED cambio
    /\ UNCHANGED FueraDeDenuncias

\* one call of GestorEstados._cambiar_estado_individual on the complaint at
\* indice
CambiarEstadoIndividual(indice, seleccion, comentario, confirmar, escritura) ==
    /\ indice \in 1..Len(denuncias)
    /\ Len(cambio.ejecutados) < MaxCambios
    /\ \E nuevo_estado \in {EstadoElegido(EstadosValidos(Get(denuncias[indice], "estado", "nueva")), int(seleccion), confirmar)}, llamada \in {_cambiar_estado_individual(denuncias, archivo, indice, seleccion, comentario, confirmar, escritura, reloj)} :
           /\ denuncias' = llamada.denuncias
           /\ archivo' = llamada.archivo
           /\ cambio' = [operacion |-> "_cambiar_estado_individual", indice |-> indice, antes |-> denuncias[indice], impreso |-> LineasImpresas(Get(denuncias[indice], "estado", "nueva")), entero |-> int(seleccion), confirmado |-> Confirma(confirmar), nuevo_estado |-> nuevo_estado, ejecutados |-> IF nuevo_estado = "" THEN cambio.ejecutados ELSE Append(cambio.ejecutados, [indice |-> indice, estado_al_entrar |-> Get(denuncias[indice], "estado", "nueva"), nuevo_estado |-> nuevo_estado])]
    /\ UNCHANGED registro
    /\ UNCHANGED FueraDeDenuncias

\* one call of GestorEstados._ejecutar_cambio_estado on the complaint at
\* indice
EjecutarCambioEstado(indice, nuevo_estado, comentario, escritura) ==
    /\ indice \in 1..Len(denuncias)
    /\ Len(cambio.ejecutados) < MaxCambios
    /\ \E llamada \in {_ejecutar_cambio_estado(denuncias, archivo, indice, nuevo_estado, comentario, escritura, reloj)} :
           /\ denuncias' = llamada.denuncias
           /\ archivo' = llamada.archivo
           /\ cambio' = [operacion |-> "_ejecutar_cambio_estado", indice |-> indice, antes |-> denuncias[indice], impreso |-> <<>>, entero |-> Lanza("ValueError"), confirmado |-> FALSE, nuevo_estado |-> nuevo_estado, ejecutados |-> Append(cambio.ejecutados, [indice |-> indice, estado_al_entrar |-> Get(denuncias[indice], "estado", "nueva"), nuevo_estado |-> nuevo_estado])]
    /\ UNCHANGED registro
    /\ UNCHANGED FueraDeDenuncias

\* complaints are registered, whatever the message and whether or not the
\* file can be written
NextRegistro == \E mensaje \in MensajesRegistro, id \in IdsGenerados, escritura \in Escrituras : RegistrarDenuncia(mensaje, id, escritura)

SpecRegistro == Init /\ [][NextRegistro]_vars

\* complaints are registered and the administrator changes their states
NextEstados ==
    \/ \E escritura \in EscriturasDeEstados : RegistrarDenuncia("me acosa ", "a1b2c3d4", escritura)
    \/ \E indice \in 1..MaxDenuncias, seleccion \in SeleccionesTecleadas, comentario \in ComentariosTecleados, confirmar \in ConfirmacionesTecleadas, escritura \in EscriturasDeEstados : CambiarEstadoIndividual(indice, seleccion, comentario, confirmar, escritura)
    \/ \E indice \in 1..MaxDenuncias, i \in 1..Len(EstadoDenuncia), escritura \in EscriturasDeEstados : EjecutarCambioEstado(indice, EstadoDenuncia[i], "", escritura)

SpecEstados == Init /\ [][NextEstados]_vars

(***************************************************************************)
(* The role manager: the administrator authenticates, typing credentials   *)
(* that are right, wrong or of a wrong format, or interrupting; the        *)
(* session is used and closed, and the credentials are changed.            *)
(***************************************************************************)
UsuariosTecleados == {"admin", " admin ", "root"}

PasswordsTecleadas == {"admin123", "clave1234 ", "corta"}

UsuariosNuevos == {"root", "ro"}

PasswordsNuevas == {"clave1234", "clave1234 "}

\* autenticar_administrador is called: lines 65-67
IniciarAutenticacion ==
    /\ autenticacion.pc = "fuera"
    /\ roles.intentos_fallidos < MaxFallidos
    /\ autenticacion' = [pc |-> "bucle", terminada |-> FALSE, intento |-> 1, intentos |-> <<>>, credenciales |-> roles.credenciales_admin, desde |-> roles.usuario_actual, devuelve |-> FALSE, al_volver |-> [usuario_actual |-> roles.usuario_actual, sesion_activa |-> roles.sesion_activa]]
    /\ UNCHANGED roles
    /\ UNCHANGED FueraDeRoles

\* one turn of the loop of autenticar_administrador, and the return of the
\* call when the loop ends
IntentoDeAutenticacion(usuario_tecleado, password_tecleada, evento) ==
    /\ autenticacion.pc = "bucle"
    /\ evento = "ctrl_c_en_pausa" => HayPausa(roles, strip(usuario_tecleado), strip(password_tecleada), autenticacion.intento)
    /\ \E vuelta \in {VueltaSegunIntento(_procesar_intento_autenticacion(roles, usuario_tecleado, password_tecleada, evento, autenticacion.intento), autenticacion.intento, reloj)} :
           /\ roles' = vuelta.self
           /\ autenticacion' = [autenticacion EXCEPT !.pc = IF vuelta.sigue THEN "bucle" ELSE "fuera",
                                                     !.terminada = ~vuelta.sigue,
                                                     !.intento = IF vuelta.sigue THEN @ + 1 ELSE @,
                                                     !.intentos = Append(@, IF evento \in {"ctrl_c_en_input", "error_en_input"} THEN [tecleado |-> FALSE, usuario |-> "", password |-> "", evento |-> evento] ELSE [tecleado |-> TRUE, usuario |-> usuario_tecleado, password |-> password_tecleada, evento |-> evento]),
                                                     !.devuelve = vuelta.devuelve,
                                                     !.al_volver = [usuario_actual |-> vuelta.self.usuario_actual, sesion_activa |-> vuelta.self.sesion_activa]]
    /\ UNCHANGED FueraDeRoles

\* one call of cerrar_sesion
CerrarSesion ==
    /\ autenticacion.pc = "fuera"
    /\ roles' = cerrar_sesion(roles)
    /\ UNCHANGED autenticacion
    /\ UNCHANGED FueraDeRoles

\* one call of registrar_accion
RegistrarAccion(accion) ==
    /\ autenticacion.pc = "fuera"
    /\ Len(roles.info_sesion.acciones_realizadas) < MaxAcciones
    /\ roles' = registrar_accion(roles, accion, reloj)
    /\ UNCHANGED autenticacion
    /\ UNCHANGED FueraDeRoles

\* one call of cambiar_credenciales
CambiarCredenciales(nuevo_usuario, nueva_password, confirmacion) ==
    /\ autenticacion.pc = "fuera"
    /\ Len(roles.info_sesion.acciones_realizadas) < MaxAcciones
    /\ roles' = cambiar_credenciales(roles, nuevo_usuario, nueva_password, confirmacion, reloj).self
    /\ UNCHANGED autenticacion
    /\ UNCHANGED FueraDeRoles

NextRoles ==
    \/ IniciarAutenticacion
    \/ \E usuario_tecleado \in UsuariosTecleados, password_tecleada \in PasswordsTecleadas, evento \in EventosDeIntento : IntentoDeAutenticacion(usuario_tecleado, password_tecleada, evento)
    \/ CerrarSesion
    \/ RegistrarAccion("ver_estadisticas")
    \/ \E nuevo_usuario \in UsuariosNuevos, nueva_password \in PasswordsNuevas, confirmacion \in {"s", "n"} : CambiarCredenciales(nuevo_usuario, nueva_password, confirmacion)

SpecRoles == Init /\ [][NextRoles]_vars

(***************************************************************************)
(* What the properties below read from a state.                            *)
(***************************************************************************)
Devuelto == resultado.termina = "return"
DevueltoAntes == resultadoPrevio.termina = "return"

TiposDeAlerta(alertas) == {alertas[i].tipo : i \in 1..Len(alertas)}

\* a list without its order
SinOrden(xs) == [elementos |-> Elementos(xs), largo |-> Len(xs)]

\* a returned dict without the moment of the call and without the order of
\* the lists that list(set(...)) builds
SinMomentoNiOrden(r) ==
    [r EXCEPT !.timestamp_analisis = 0,
              !.recomendaciones = SinOrden(@),
              !.entidades = [tiempos |-> SinOrden(@.tiempos),
                             lugares |-> SinOrden(@.lugares),
                             personas |-> SinOrden(@.personas),
                             evidencias |-> SinOrden(@.evidencias)]]

Comparable(res) ==
    IF res.termina = "return"
    THEN [termina |-> "return", valor |-> SinMomentoNiOrden(res.valor)]
    ELSE res

\* every regular expression of the engine but the violence patterns
PatronesNoViolentos ==
    patrones_urgencia_critica \o patrones_evidencia
      \o [i \in 1..Len(patrones_tiempo) |-> patrones_tiempo[i].re]
      \o patrones_lugares
      \o Aplanar([i \in 1..Len(OrdenEmociones) |-> patrones_emociones[OrdenEmociones[i]]])
      \o Aplanar([i \in 1..Len(OrdenCategorias) |-> patrones_categorias[OrdenCategorias[i]]])
      \o [i \in 1..Len(OrdenTiposEvidencia) |-> tipos_evidencia[OrdenTiposEvidencia[i]]]
      \o << PatronFactorEvidencia, PatronFactorTiempo, PatronFactorPersonas,
            PatronFactorImpacto, PatronHora, PatronFecha, PatronLugarNumerado,
            PatronAmenazaDirecta, PatronRiesgo, PatronEvidenciaSolida >>

\* every keyword the engine looks for with "in"
PalabrasDelMotor ==
    palabras_criticas \o PalabrasContexto.acoso_laboral \o PalabrasContexto.violencia
      \o PalabrasContexto.fraude \o palabras_negativas \o palabras_positivas

SinOtrasFamilias(mensaje) ==
    \A i \in 1..Len(PatronesNoViolentos) : ~search(PatronesNoViolentos[i], lower(mensaje))

\* the text matches no pattern and holds no keyword of the engine
SinCoincidencias(mensaje) ==
    /\ SinOtrasFamilias(mensaje)
    /\ \A i \in 1..Len(patrones_violencia) : ~search(patrones_violencia[i], lower(mensaje))
    /\ ~AlgunaContenida(lower(mensaje), PalabrasDelMotor)

\* the assessment of a text that says nothing
Inerte(r) ==
    /\ r.urgencia.nivel = "BAJA"
    /\ r.categoria.sugerida = "otros"
    /\ r.evidencias.nivel_credibilidad = "muy_baja"
    /\ r.alertas = <<>>
    /\ r.requiere_atencion_inmediata = FALSE

(***************************************************************************)
(* C1                                                                      *)
(***************************************************************************)
\* C1, as stated: two calls with the same argument, at any two moments and
\* in the same or in another process, produce results that are identical in
\* every field and in the order of every list.
RepetidaIdentica == relacion = "repetida" => resultado = resultadoPrevio

\* C1, amended: two calls with the same argument produce results that are
\* identical in every field but timestamp_analisis, the lists
\* recomendaciones and entidades[*] holding the same items, as many of
\* them, in an order that may differ.
RepetidaIgualSalvoMomentoYOrden ==
    relacion = "repetida" => Comparable(resultado) = Comparable(resultadoPrevio)

\* a text analysed twice, at two moments and under two hash seeds, with the
\* recommendations coming out in two orders
RepetidaEnOtroMomentoYOrden ==
    /\ relacion = "repetida"
    /\ Devuelto
    /\ DevueltoAntes
    /\ resultado.valor.timestamp_analisis # resultadoPrevio.valor.timestamp_analisis
    /\ resultado.valor.recomendaciones # resultadoPrevio.valor.recomendaciones

(***************************************************************************)
(* C2                                                                      *)
(***************************************************************************)
\* C2, as stated: the empty string and every text that matches no pattern
\* and holds no keyword of the engine is assessed as urgency BAJA, category
\* otros, credibility muy_baja, no alert, requiere_atencion_inmediata false.
SinCoincidenciasInerte ==
    (Devuelto /\ SinCoincidencias(entrada.valor)) => Inerte(resultado.valor)

\* C2, amended: the same for the empty string and every such text that
\* holds fewer than three exclamation marks.
SinCoincidenciasNiExclamacionesInerte ==
    (Devuelto /\ SinCoincidencias(entrada.valor) /\ count(entrada.valor, "!") < 3)
        => Inerte(resultado.valor)

\* a text of words, some of them shouted, that matches nothing has been analysed
AnalizadoSinCoincidencias ==
    /\ Devuelto
    /\ SinCoincidencias(entrada.valor)
    /\ count(entrada.valor, "!") < 3
    /\ Len(split(entrada.valor)) >= 3

(***************************************************************************)
(* C3                                                                      *)
(***************************************************************************)
\* C3, as stated: a call with None or with another object that is no str
\* does not raise; it returns the assessment of the empty string (urgency
\* BAJA, category otros, credibility muy_baja).
NoStrComoVacio ==
    entrada.tipo \in {"NoneType", "int"} =>
        /\ Devuelto
        /\ resultado.valor.urgencia.nivel = "BAJA"
        /\ resultado.valor.categoria.sugerida = "otros"
        /\ resultado.valor.evidencias.nivel_credibilidad = "muy_baja"

(***************************************************************************)
(* C4                                                                      *)
(***************************************************************************)
\* C4, as stated: no exception ever leaves analizar_denuncia_completa; when
\* a component fails (detectar_urgencia does, on an argument without
\* lower()), the call returns a result with procesamiento_exitoso = false
\* and an error description.
FalloDevueltoNoPropagado ==
    resultado # NoLlamada =>
        /\ resultado.termina # "raise"
        /\ entrada.tipo # "str" =>
              /\ "procesamiento_exitoso" \in DOMAIN resultado.valor
              /\ resultado.valor.procesamiento_exitoso = FALSE
              /\ "error" \in DOMAIN resultado.valor

(***************************************************************************)
(* C5                                                                      *)
(***************************************************************************)
\* C5, as stated: the text EscenarioAmenaza is assessed as urgency CRITICA
\* or EMERGENCIA, category violencia, with at least the alerts
\* urgencia_critica and amenaza_directa, requiere_atencion_inmediata true.
EscenarioAmenazaComoViolencia ==
    (entrada = Str(EscenarioAmenaza) /\ Devuelto) =>
        /\ resultado.valor.urgencia.nivel \in {"CRITICA", "EMERGENCIA"}
        /\ resultado.valor.categoria.sugerida = "violencia"
        /\ {"urgencia_critica", "amenaza_directa"} \subseteq TiposDeAlerta(resultado.valor.alertas)
        /\ resultado.valor.requiere_atencion_inmediata = TRUE

(***************************************************************************)
(* C6                                                                      *)
(***************************************************************************)
\* how many matches each violence pattern has in the text
CoincidenciasViolencia(mensaje) ==
    [i \in 1..Len(patrones_violencia) |-> Len(findall(patrones_violencia[i], lower(mensaje)))]

\* C6, as stated: a text with exactly 2 matches of the violence patterns and
\* no match of another pattern gets the alert contenido_violento and not
\* the alert amenaza_directa.
DosCoincidenciasViolentas ==
    (/\ Devuelto
     /\ Suma(CoincidenciasViolencia(entrada.valor)) = 2
     /\ SinOtrasFamilias(entrada.valor))
        => /\ "contenido_violento" \in TiposDeAlerta(resultado.valor.alertas)
           /\ "amenaza_directa" \notin TiposDeAlerta(resultado.valor.alertas)

\* C6, amended: a text with exactly 2 matches of the violence patterns, one
\* of each of two different patterns, and no match of another pattern gets
\* the alert contenido_violento and not the alert amenaza_directa.
DosPatronesViolentos ==
    (/\ Devuelto
     /\ Suma(CoincidenciasViolencia(entrada.valor)) = 2
     /\ \A i \in 1..Len(patrones_violencia) : CoincidenciasViolencia(entrada.valor)[i] <= 1
     /\ SinOtrasFamilias(entrada.valor))
        => /\ "contenido_violento" \in TiposDeAlerta(resultado.valor.alertas)
           /\ "amenaza_directa" \notin TiposDeAlerta(resultado.valor.alertas)

\* such a text has been analysed
AnalizadoDosPatronesViolentos ==
    /\ Devuelto
    /\ Suma(CoincidenciasViolencia(entrada.valor)) = 2
    /\ \A i \in 1..Len(patrones_violencia) : CoincidenciasViolencia(entrada.valor)[i] <= 1
    /\ SinOtrasFamilias(entrada.valor)

(***************************************************************************)
(* C7                                                                      *)
(***************************************************************************)
\* the alert kinds in declaration order, each with its threshold and its priority
TablaAlertas == << <<"urgencia_critica", 3, "alta">>,
                   <<"contenido_violento", 2, "alta">>,
                   <<"amenaza_directa", 1, "crítica">>,
                   <<"situacion_riesgo", 2, "media">>,
                   <<"evidencia_solida", 3, "media">> >>

\* the alerts the table yields for the five trigger values, as <<kind, priority>>
AlertasDeTabla(disparadores) ==
    LET alcanzan == SelectSeq(Posiciones(Len(TablaAlertas)),
                              LAMBDA i : disparadores[i] >= TablaAlertas[i][2])
    IN  [k \in 1..Len(alcanzan) |->
            <<TablaAlertas[alcanzan[k]][1], TablaAlertas[alcanzan[k]][3]>>]

TiposYPrioridades(alertas) ==
    [i \in 1..Len(alertas) |-> <<alertas[i].tipo, alertas[i].prioridad>>]

\* the trigger values of a result, given the one of contenido_violento
Disparadores(r, mensaje, violentos) ==
    << r.urgencia.valor,
       violentos,
       Len(findall(PatronAmenazaDirecta, lower(mensaje))),
       Len(findall(PatronRiesgo, lower(mensaje))),
       Len(findall(PatronEvidenciaSolida, lower(mensaje))) >>

\* C7, as stated: the alerts are exactly the kinds whose trigger reaches its
\* threshold, in declaration order, each once and with its priority; the
\* trigger of contenido_violento is the number of violence-pattern matches.
AlertasPorCoincidencias ==
    Devuelto =>
        TiposYPrioridades(resultado.valor.alertas)
          = AlertasDeTabla(Disparadores(resultado.valor, entrada.valor,
                                        Suma(CoincidenciasViolencia(entrada.valor))))

\* C7, amended: the same, the trigger of contenido_violento being the number
\* of violence patterns that have at least one match in the text.
AlertasPorPatrones ==
    Devuelto =>
        TiposYPrioridades(resultado.valor.alertas)
          = AlertasDeTabla(Disparadores(resultado.valor, entrada.valor,
                Cardinality({i \in 1..Len(patrones_violencia) :
                                CoincidenciasViolencia(entrada.valor)[i] >= 1})))

\* a text that sets off three kinds of alert, contenido_violento among them
AnalizadoConTresAlertas ==
    /\ Devuelto
    /\ Len(resultado.valor.alertas) >= 3
    /\ "contenido_violento" \in TiposDeAlerta(resultado.valor.alertas)

(***************************************************************************)
(* C8                                                                      *)
(***************************************************************************)
\* the urgency score and tier did not go down from the call before
UrgenciaNoBaja ==
    /\ PuntuacionUrgenciaDoble(entrada.valor) >= PuntuacionUrgenciaDoble(previa.valor)
    /\ resultado.valor.urgencia.valor >= resultadoPrevio.valor.urgencia.valor

\* the keyword appended to the text of the call before starts a word
PalabraAparte ==
    \/ relacion = "palabra_separada"
    \/ /\ relacion = "palabra_pegada"
       /\ \/ previa.valor = ""
          \/ SubSeq(previa.valor, Len(previa.valor), Len(previa.valor)) \notin CaracteresPalabra

\* C8, as stated: a text with one more urgency keyword appended scores at
\* least as high as the text, and its tier is at least as high.
UrgenciaMonotona ==
    relacion \in {"palabra_pegada", "palabra_separada"} => UrgenciaNoBaja

\* C8, amended: the same when the appended keyword is a word of its own:
\* the text is empty or the character before the keyword is not a letter,
\* a digit or an underscore.
UrgenciaMonotonaPalabraAparte == PalabraAparte => UrgenciaNoBaja

\* a keyword appended after a space to a text that already scored
AnadidaPalabraAparte ==
    /\ relacion = "palabra_separada"
    /\ PuntuacionUrgenciaDoble(previa.valor) >= 2 * 5
    /\ resultado.valor.urgencia.valor > resultadoPrevio.valor.urgencia.valor

(***************************************************************************)
(* C9                                                                      *)
(***************************************************************************)
\* C9: a text with whitespace added before it, after it or next to
\* whitespace it holds gets the same urgency tier, the same category, the
\* same evidence score and the same credibility tier as the text.
EspaciosNoCambian ==
    relacion = "espaciada" =>
        /\ resultado.valor.urgencia.nivel = resultadoPrevio.valor.urgencia.nivel
        /\ resultado.valor.categoria.sugerida = resultadoPrevio.valor.categoria.sugerida
        /\ resultado.valor.evidencias.puntuacion_evidencia_doble
             = resultadoPrevio.valor.evidencias.puntuacion_evidencia_doble
        /\ resultado.valor.evidencias.nivel_credibilidad
             = resultadoPrevio.valor.evidencias.nivel_credibilidad

\* whitespace lengthened inside a text whose category and evidence score
\* rest on patterns that span whitespace
EspaciadaEntrePalabras ==
    /\ relacion = "espaciada"
    /\ Len(split(entrada.valor)) >= 4
    /\ \E p \in 1..(Len(entrada.valor) - 1) :
          /\ SubSeq(entrada.valor, p, p) \in Espacios
          /\ SubSeq(entrada.valor, p + 1, p + 1) \in Espacios
    /\ resultado.valor.categoria.sugerida = "discriminacion"
    /\ resultado.valor.evidencias.especificidad >= 1

(***************************************************************************)
(* C10                                                                     *)
(***************************************************************************)
\* the text holds no vocabulary of any category: no match of a category
\* pattern and none of the context words
SinVocabularioDeCategoria(s) ==
    /\ \A i \in 1..Len(OrdenCategorias) :
          TotalCoincidencias(patrones_categorias[OrdenCategorias[i]], lower(s)) = 0
    /\ \A c \in DOMAIN PalabrasContexto : ~AlgunaContenida(lower(s), PalabrasContexto[c])

\* C10: of two texts that differ only in their category vocabulary (what
\* they share holds none), one worded with a harassment term and one with
\* a bribery term, the first gets category acoso_laboral, the second
\* category corrupcion, each with a confidence above zero.
VocabularioDecideCategoria ==
    relacion = "otro_vocabulario" =>
        \A antes \in Marcos, despues \in Marcos, t \in TerminosAcoso, u \in TerminosSoborno :
            (/\ previa = Str(Componer(antes, t, despues))
             /\ entrada = Str(Componer(antes, u, despues))
             /\ SinVocabularioDeCategoria(antes)
             /\ SinVocabularioDeCategoria(despues))
                => /\ resultadoPrevio.valor.categoria.sugerida = "acoso_laboral"
                   /\ resultado.valor.categoria.sugerida = "corrupcion"
                   /\ resultadoPrevio.valor.categoria.confianza > 0
                   /\ resultado.valor.categoria.confianza > 0

\* two such texts, with words around the term on both sides, have been
\* analysed; the harassment term is one that the violence category lists too
AnalizadoParDeVocabularios ==
    /\ relacion = "otro_vocabulario"
    /\ \E antes \in Marcos \ {""}, despues \in Marcos \ {""}, u \in TerminosSoborno :
          /\ previa = Str(Componer(antes, "intimidación", despues))
          /\ entrada = Str(Componer(antes, u, despues))
          /\ SinVocabularioDeCategoria(antes)
          /\ SinVocabularioDeCategoria(despues)

(***************************************************************************)
(* C11                                                                     *)
(***************************************************************************)
\* twice the score s of the statement, from the text alone
PuntuacionEnunciadaDoble(mensaje) ==
    4 * TotalCoincidencias(patrones_urgencia_critica, lower(mensaje))
      + 6 * TotalCoincidencias(patrones_violencia, lower(mensaje))
      + 3 * Suma([i \in 1..Len(palabras_criticas) |-> count(lower(mensaje), palabras_criticas[i])])
      + (IF count(mensaje, "!") >= 3 THEN 4 ELSE 0)
      + (IF Cardinality({i \in 1..Len(split(mensaje)) :
                            isupper(split(mensaje)[i]) /\ Len(split(mensaje)[i]) > 2}) >= 3
         THEN 2 ELSE 0)

\* the tier of the statement for a doubled score
NivelEnunciado(doble) ==
    CASE doble >= 24 -> "EMERGENCIA"
      [] doble < 24 /\ doble >= 16 -> "CRITICA"
      [] doble < 16 /\ doble >= 10 -> "ALTA"
      [] doble < 10 /\ doble >= 4 -> "MEDIA"
      [] doble < 4 -> "BAJA"

\* C11: for every str the call returns, and the urgency tier it reports is
\* the tier of s = 2 x (matches of the urgency patterns) + 3 x (matches of
\* the violence patterns) + 1.5 x (occurrences of the critical keywords)
\* + 2 when the text holds three exclamation marks or more + 1 when it
\* holds three or more upper-case words longer than two characters:
\* EMERGENCIA from 12, CRITICA from 8, ALTA from 5, MEDIA from 2, else BAJA.
UrgenciaSegunPuntuacion ==
    entrada.tipo = "str" =>
        /\ Devuelto
        /\ resultado.valor.urgencia.nivel = NivelEnunciado(PuntuacionEnunciadaDoble(entrada.valor))
        /\ resultado.valor.urgencia.valor = NivelUrgencia[resultado.valor.urgencia.nivel]

\* a text that scores exactly 5, of which 2 come from its three exclamation
\* marks, assessed as ALTA
AnalizadoEnElUmbralDeAlta ==
    /\ Devuelto
    /\ PuntuacionEnunciadaDoble(entrada.valor) = 10
    /\ count(entrada.valor, "!") = 3
    /\ resultado.valor.urgencia.nivel = "ALTA"

(***************************************************************************)
(* C12                                                                     *)
(***************************************************************************)
Categorias == Elementos(OrdenCategorias)

\* the place of a category in the table of categories
LugarDeCategoria(c) == CHOOSE i \in 1..Len(OrdenCategorias) : OrdenCategorias[i] = c

TodasNulas(puntuaciones) == \A c \in Categorias : puntuaciones[c] = 0

\* C12, as stated: a category of the closed set is returned only when its
\* score, pattern matches plus context bonus, is strictly higher than the
\* score of every other category, and "otros" is returned when all the
\* scores are zero.
CategoriaEstrictamenteMayor ==
    Devuelto =>
        /\ resultado.valor.categoria.sugerida \in Categorias \cup {"otros"}
        /\ resultado.valor.categoria.sugerida \in Categorias =>
              \A c \in Categorias \ {resultado.valor.categoria.sugerida} :
                  PuntuacionesCategoria(entrada.valor)[c]
                    < PuntuacionesCategoria(entrada.valor)[resultado.valor.categoria.sugerida]
        /\ TodasNulas(PuntuacionesCategoria(entrada.valor)) =>
              resultado.valor.categoria.sugerida = "otros"

\* C12, amended: a category of the closed set is returned only when its
\* score is at least as high as the score of every other category and
\* strictly higher than the score of every category that comes before it in
\* the table of categories, and "otros" is returned when all the scores are
\* zero.
CategoriaPrimeraMayor ==
    Devuelto =>
        /\ resultado.valor.categoria.sugerida \in Categorias \cup {"otros"}
        /\ resultado.valor.categoria.sugerida \in Categorias =>
              \A c \in Categorias \ {resultado.valor.categoria.sugerida} :
                  IF LugarDeCategoria(c) < LugarDeCategoria(resultado.valor.categoria.sugerida)
                  THEN PuntuacionesCategoria(entrada.valor)[c]
                         < PuntuacionesCategoria(entrada.valor)[resultado.valor.categoria.sugerida]
                  ELSE PuntuacionesCategoria(entrada.valor)[c]
                         <= PuntuacionesCategoria(entrada.valor)[resultado.valor.categoria.sugerida]
        /\ TodasNulas(PuntuacionesCategoria(entrada.valor)) =>
              resultado.valor.categoria.sugerida = "otros"

\* a text that scores fraude and seguridad alike, above the rest, analysed:
\* fraude, the earlier of the two, is returned
AnalizadoEmpateDeCategorias ==
    /\ Devuelto
    /\ resultado.valor.categoria.sugerida = "fraude"
    /\ PuntuacionesCategoria(entrada.valor).seguridad = PuntuacionesCategoria(entrada.valor).fraude
    /\ PuntuacionesCategoria(entrada.valor).fraude > 0

(***************************************************************************)
(* C13                                                                     *)
(***************************************************************************)
\* the pattern set of a category; "otros" has none
PatronesDe(categoria) ==
    IF categoria \in Categorias THEN patrones_categorias[categoria] ELSE <<>>

\* the matches of the pattern set of a category in a text, no more than the
\* number of patterns of the set
CoincidenciasConTope(mensaje, categoria) ==
    Min(TotalCoincidencias(PatronesDe(categoria), lower(mensaje)), Len(PatronesDe(categoria)))

\* how far a confidence in hundredths, times the number of patterns of the
\* category, is from 100 times the clamped matches
DesvioConfianza(confianza, mensaje, categoria) ==
    confianza * Len(PatronesDe(categoria)) - 100 * CoincidenciasConTope(mensaje, categoria)

\* C13, as stated: for every text and every selected category, "otros"
\* included, the confidence reported equals the matches of the selected
\* category's patterns divided by the number of its patterns, clamped to
\* [0,1].  The confidence is held in hundredths.
ConfianzaEsCociente ==
    Devuelto =>
        /\ Len(PatronesDe(resultado.valor.categoria.sugerida)) > 0
        /\ DesvioConfianza(resultado.valor.categoria.confianza, entrada.valor,
                           resultado.valor.categoria.sugerida) = 0

\* C13, amended: for every text and every selected category of the closed
\* set, the confidence reported equals that quotient, clamped to [0,1] and
\* rounded to two decimals; for the fallback "otros" it is 0.5.
ConfianzaEsCocienteRedondeado ==
    Devuelto =>
        /\ resultado.valor.categoria.confianza \in 0..100
        /\ resultado.valor.categoria.sugerida = "otros" =>
              resultado.valor.categoria.confianza = 50
        /\ resultado.valor.categoria.sugerida \in Categorias =>
              2 * DesvioConfianza(resultado.valor.categoria.confianza, entrada.valor,
                                  resultado.valor.categoria.sugerida)
                \in -Len(PatronesDe(resultado.valor.categoria.sugerida))
                      ..Len(PatronesDe(resultado.valor.categoria.sugerida))

\* a text with more matches of the selected category's patterns than the
\* category has patterns, analysed: the confidence is 1
AnalizadoConMasCoincidenciasQuePatrones ==
    /\ Devuelto
    /\ resultado.valor.categoria.sugerida \in Categorias
    /\ TotalCoincidencias(PatronesDe(resultado.valor.categoria.sugerida), lower(entrada.valor))
         > Len(PatronesDe(resultado.valor.categoria.sugerida))
    /\ resultado.valor.categoria.confianza = 100

(***************************************************************************)
(* C14                                                                     *)
(***************************************************************************)
\* C14: the alternatives of a result are the next-highest-scoring
\* categories after the selected one: the list never holds the selected
\* category, holds only categories whose score is not zero, is in
\* descending order of score and has at most 3 entries.
AlternativasSinLaSeleccionada ==
    Devuelto =>
        /\ resultado.valor.categoria.sugerida
             \notin Elementos(resultado.valor.categoria.alternativas)
        /\ \A i \in 1..Len(resultado.valor.categoria.alternativas) :
              PuntuacionesCategoria(entrada.valor)[resultado.valor.categoria.alternativas[i]] > 0
        /\ \A i \in 1..Len(resultado.valor.categoria.alternativas) - 1 :
              PuntuacionesCategoria(entrada.valor)[resultado.valor.categoria.alternativas[i]]
                >= PuntuacionesCategoria(entrada.valor)[resultado.valor.categoria.alternativas[i + 1]]
        /\ Len(resultado.valor.categoria.alternativas) <= 3

(***************************************************************************)
(* C15                                                                     *)
(***************************************************************************)
\* twice the composite score of the statement, from the text alone
CompuestaEnunciadaDoble(mensaje) ==
    2 * (Len(findall(tipos_evidencia["documental"], lower(mensaje)))
           + Len(findall(tipos_evidencia["visual"], lower(mensaje)))
           + Len(findall(tipos_evidencia["testimonial"], lower(mensaje)))
           + Len(findall(tipos_evidencia["física"], lower(mensaje))))
      + Especificidad(mensaje)

\* the credibility of the statement for a doubled composite score
CredibilidadEnunciada(doble) ==
    CASE doble >= 10 -> "alta"
      [] doble < 10 /\ doble >= 6 -> "media"
      [] doble < 6 /\ doble >= 2 -> "baja"
      [] doble < 2 -> "muy_baja"

\* C15: the composite score of evaluar_evidencias is the sum of the
\* documental, visual, testimonial and física matches plus 0.5 times the
\* especificidad; the credibility is alta from 5, media from 3, baja from
\* 1, else muy_baja; requiere_mas_evidencia is true exactly when the score
\* is below 2; so alta never comes with requiere_mas_evidencia.
CredibilidadSegunCompuesta ==
    Devuelto =>
        /\ resultado.valor.evidencias.puntuacion_evidencia_doble
             = CompuestaEnunciadaDoble(entrada.valor)
        /\ resultado.valor.evidencias.nivel_credibilidad
             = CredibilidadEnunciada(CompuestaEnunciadaDoble(entrada.valor))
        /\ resultado.valor.evidencias.requiere_mas_evidencia
             = (CompuestaEnunciadaDoble(entrada.valor) < 4)
        /\ ~ (/\ resultado.valor.evidencias.nivel_credibilidad = "alta"
              /\ resultado.valor.evidencias.requiere_mas_evidencia)

\* a text whose composite score is 2.5, half a point of it from an hour,
\* analysed: credibility baja, no more evidence required
AnalizadoConCompuestaDosYMedio ==
    /\ Devuelto
    /\ CompuestaEnunciadaDoble(entrada.valor) = 5
    /\ resultado.valor.evidencias.especificidad = 1
    /\ resultado.valor.evidencias.nivel_credibilidad = "baja"
    /\ ~ resultado.valor.evidencias.requiere_mas_evidencia

(***************************************************************************)
(* C16                                                                     *)
(***************************************************************************)
\* ten times the sum of the statement before the cap, for a text and an
\* urgency rank
PrioridadEnunciadaDecimas(mensaje, rango) ==
    10 * rango
      + Min(5 * Len(findall(PatronFactorEvidencia, lower(mensaje))), 10)
      + Min(3 * Len(findall(PatronFactorTiempo, lower(mensaje))), 8)
      + Min(2 * Len(findall(PatronFactorPersonas, lower(mensaje))), 6)
      + Min(3 * Len(findall(PatronFactorImpacto, lower(mensaje))), 7)

\* n is an integer nearest to decimas / 10
EnteroMasCercano(n, decimas) == 10 * n - decimas \in -5..5

\* C16: the priority is the urgency rank + min(0.5 x evidence mentions, 1)
\* + min(0.3 x recent-time mentions, 0.8) + min(0.2 x people mentions, 0.6)
\* + min(0.3 x organisation mentions, 0.7), capped at 5 and rounded to the
\* nearest integer; it is always an integer from the urgency rank to 5.
PrioridadSegunFactores ==
    Devuelto =>
        /\ resultado.valor.prioridad.puntuacion \in Int
        /\ EnteroMasCercano(resultado.valor.prioridad.puntuacion,
                            Min(PrioridadEnunciadaDecimas(entrada.valor,
                                                          resultado.valor.urgencia.valor), 50))
        /\ resultado.valor.prioridad.puntuacion >= resultado.valor.urgencia.valor
        /\ resultado.valor.prioridad.puntuacion <= 5

\* a text of urgency rank 5 that mentions a recent time, analysed: the sum
\* is above 5 and the priority is 5
AnalizadoConPrioridadTopada ==
    /\ Devuelto
    /\ resultado.valor.urgencia.valor = 5
    /\ PrioridadEnunciadaDecimas(entrada.valor, 5) > 50
    /\ resultado.valor.prioridad.puntuacion = 5

(***************************************************************************)
(* C17                                                                     *)
(***************************************************************************)
\* some alert of the list has priority crítica or alta
AlgunaAlertaCriticaOAlta(alertas) ==
    \E i \in 1..Len(alertas) : alertas[i].prioridad \in {"crítica", "alta"}

\* C17: requiere_atencion_inmediata is true exactly when the urgency rank
\* is 4 or more or some alert of the result has priority crítica or alta;
\* so it is true for every text of urgency rank 3 or more, and false when
\* no alert is crítica or alta and the rank is below 4.
AtencionSegunRangoYAlertas ==
    Devuelto =>
        /\ resultado.valor.requiere_atencion_inmediata
             = (\/ resultado.valor.urgencia.valor >= 4
                \/ AlgunaAlertaCriticaOAlta(resultado.valor.alertas))
        /\ resultado.valor.urgencia.valor >= 3 => resultado.valor.requiere_atencion_inmediata
        /\ (/\ ~ AlgunaAlertaCriticaOAlta(resultado.valor.alertas)
            /\ resultado.valor.urgencia.valor < 4) => ~ resultado.valor.requiere_atencion_inmediata

\* a text of urgency rank 3, whose one alert of priority alta is
\* urgencia_critica, analysed: it requires immediate attention
AnalizadoRangoTresConAlertaAlta ==
    /\ Devuelto
    /\ resultado.valor.urgencia.valor = 3
    /\ TiposYPrioridades(resultado.valor.alertas) = << <<"urgencia_critica", "alta">> >>
    /\ resultado.valor.requiere_atencion_inmediata

(***************************************************************************)
(* C18                                                                     *)
(***************************************************************************)
\* "contact within 2 hours" and "notify authorities"
AccionesInmediatas ==
    {"U+1F6A8 ACCIÓN INMEDIATA: Contactar al denunciante en las próximas 2 horas",
     "U+1F4DE Notificar a autoridades competentes si hay riesgo inmediato"}

\* "respond within 24h" and "start preliminary investigation"
AccionesEnUnDia ==
    {"U+23F0 Responder dentro de las próximas 24 horas",
     "U+1F50D Iniciar investigación preliminar"}

\* C18, as stated: with urgency rank 4 or more the recommendations hold
\* "contact within 2 hours" and "notify authorities"; with urgency rank 3
\* or more they hold "respond within 24h" and "start preliminary
\* investigation"; with rank 2 or less they hold none of the four.
AccionesPorRangoDesde ==
    Devuelto =>
        /\ resultado.valor.urgencia.valor >= 4 =>
              AccionesInmediatas \subseteq Elementos(resultado.valor.recomendaciones)
        /\ resultado.valor.urgencia.valor >= 3 =>
              AccionesEnUnDia \subseteq Elementos(resultado.valor.recomendaciones)
        /\ resultado.valor.urgencia.valor <= 2 =>
              Elementos(resultado.valor.recomendaciones)
                \cap (AccionesInmediatas \cup AccionesEnUnDia) = {}

\* C18, amended: with urgency rank 4 or more the recommendations hold
\* "contact within 2 hours" and "notify authorities"; with urgency rank
\* exactly 3 they hold "respond within 24h" and "start preliminary
\* investigation"; with rank 2 or less they hold none of the four.
AccionesPorRangoExacto ==
    Devuelto =>
        /\ resultado.valor.urgencia.valor >= 4 =>
              AccionesInmediatas \subseteq Elementos(resultado.valor.recomendaciones)
        /\ resultado.valor.urgencia.valor = 3 =>
              AccionesEnUnDia \subseteq Elementos(resultado.valor.recomendaciones)
        /\ resultado.valor.urgencia.valor <= 2 =>
              Elementos(resultado.valor.recomendaciones)
                \cap (AccionesInmediatas \cup AccionesEnUnDia) = {}

\* a text of urgency rank 4 analysed: the recommendations hold the two
\* immediate actions and neither of the two others
AnalizadoRangoCuatroSinAccionesEnUnDia ==
    /\ Devuelto
    /\ resultado.valor.urgencia.valor = 4
    /\ AccionesInmediatas \subseteq Elementos(resultado.valor.recomendaciones)
    /\ Elementos(resultado.valor.recomendaciones) \cap AccionesEnUnDia = {}

(***************************************************************************)
(* C19                                                                     *)
(***************************************************************************)
\* the prefix that a recommendation takes from the priority of its alert
PrefijoDePrioridad(prioridad) ==
    CASE prioridad = "crítica" -> "U+1F6A8 CRÍTICO: "
      [] prioridad = "alta" -> "U+26A0U+FE0F ALTA: "

RecomendacionesDeCierre ==
    {"U+1F4DD Registrar todas las acciones tomadas",
     "U+1F504 Programar seguimiento según cronograma establecido"}

PrioridadesDeAlerta(alertas) == {alertas[i].prioridad : i \in 1..Len(alertas)}

\* how many times a string is in a list
VecesEnLista(xs, x) == Cardinality({i \in 1..Len(xs) : xs[i] = x})

\* C19: the list that generar_recomendaciones returns holds, for every
\* alert of the result whose priority is crítica or alta, one
\* recommendation made of the prefix of that priority and the suggested
\* action of the alert; it holds no recommendation that carries the
\* suggested action of an alert of priority media; it always holds the two
\* closing recommendations; and it holds no string twice.
RecomendacionesDeAlertasYCierre ==
    Devuelto =>
        /\ \A i \in 1..Len(resultado.valor.alertas) :
              IF resultado.valor.alertas[i].prioridad \in {"crítica", "alta"}
              THEN VecesEnLista(resultado.valor.recomendaciones,
                                PrefijoDePrioridad(resultado.valor.alertas[i].prioridad)
                                  \o resultado.valor.alertas[i].accion_sugerida) = 1
              ELSE \A j \in 1..Len(resultado.valor.recomendaciones) :
                      ~ Contiene(resultado.valor.recomendaciones[j],
                                 resultado.valor.alertas[i].accion_sugerida)
        /\ RecomendacionesDeCierre \subseteq Elementos(resultado.valor.recomendaciones)
        /\ \A j \in 1..Len(resultado.valor.recomendaciones) :
              VecesEnLista(resultado.valor.recomendaciones, resultado.valor.recomendaciones[j]) = 1

\* a text analysed with alerts of the three priorities
AnalizadoConAlertasDeTresPrioridades ==
    /\ Devuelto
    /\ PrioridadesDeAlerta(resultado.valor.alertas) = {"crítica", "alta", "media"}
    /\ Len(resultado.valor.recomendaciones) >= 4

(***************************************************************************)
(* C20                                                                     *)
(***************************************************************************)
\* ten times the sum of the statement before the cap: the composite
\* evidence score of the text and the bonus of the entities of a result
SumaVeracidadDecimas(mensaje, entidades) ==
    5 * CompuestaEnunciadaDoble(mensaje)
      + 2 * Len(entidades.tiempos) + 3 * Len(entidades.lugares) + Len(entidades.personas)

\* C20: the veracity score of a result is min(composite evidence score
\* + 0.2 x the number of time entities + 0.3 x the number of place entities
\* + 0.1 x the number of person entities, 10) / 10, and so lies in [0,1].
\* The score is held in hundredths.
VeracidadSegunEvidenciaYEntidades ==
    Devuelto =>
        /\ resultado.valor.puntuacion_veracidad
             = Min(SumaVeracidadDecimas(entrada.valor, resultado.valor.entidades), 100)
        /\ resultado.valor.puntuacion_veracidad \in 0..100

\* a text whose sum is above 10 analysed: the veracity score is 1
AnalizadoConVeracidadTopada ==
    /\ Devuelto
    /\ SumaVeracidadDecimas(entrada.valor, resultado.valor.entidades) > 100
    /\ resultado.valor.puntuacion_veracidad = 100

(***************************************************************************)
(* C21                                                                     *)
(***************************************************************************)
Emociones == Elementos(OrdenEmociones)

\* the matches of the patterns of an emotion family in a text
CuentaDeEmocion(mensaje, emocion) ==
    TotalCoincidencias(patrones_emociones[emocion], lower(mensaje))

\* the sum of the counts of the five families, each no more than 5
SumaDeEmocionesTopadas(mensaje) ==
    Min(CuentaDeEmocion(mensaje, "miedo"), 5) + Min(CuentaDeEmocion(mensaje, "enojo"), 5)
      + Min(CuentaDeEmocion(mensaje, "tristeza"), 5)
      + Min(CuentaDeEmocion(mensaje, "ansiedad"), 5)
      + Min(CuentaDeEmocion(mensaje, "frustración"), 5)

\* the intensity tier of the statement for a sum
IntensidadEnunciada(suma) ==
    CASE suma <= 2 -> "baja"
      [] suma > 2 /\ suma <= 5 -> "media"
      [] suma > 5 -> "alta"

\* C21: analizar_sentimientos reports every emotion family that matches,
\* with its count capped at 5; the intensity tier comes from the sum of the
\* capped counts, baja up to 2, media up to 5, else alta; and
\* requiere_apoyo_emocional is true exactly when that sum is 4 or more or
\* the miedo family has a count that is not zero.
SentimientosSegunEmociones ==
    Devuelto =>
        /\ DOMAIN resultado.valor.sentimientos.emociones_detectadas
             = {e \in Emociones : CuentaDeEmocion(entrada.valor, e) > 0}
        /\ \A e \in DOMAIN resultado.valor.sentimientos.emociones_detectadas :
              /\ resultado.valor.sentimientos.emociones_detectadas[e] <= 5
              /\ resultado.valor.sentimientos.emociones_detectadas[e]
                   = Min(CuentaDeEmocion(entrada.valor, e), 5)
        /\ resultado.valor.sentimientos.intensidad
             = IntensidadEnunciada(SumaDeEmocionesTopadas(entrada.valor))
        /\ resultado.valor.sentimientos.requiere_apoyo_emocional
             = (\/ SumaDeEmocionesTopadas(entrada.valor) >= 4
                \/ CuentaDeEmocion(entrada.valor, "miedo") > 0)

\* a text with six words of the miedo family analysed: miedo is reported
\* with 5, the tier is media
AnalizadoConSeisDeMiedo ==
    /\ Devuelto
    /\ CuentaDeEmocion(entrada.valor, "miedo") = 6
    /\ resultado.valor.sentimientos.emociones_detectadas["miedo"] = 5
    /\ resultado.valor.sentimientos.intensidad = "media"

(***************************************************************************)
(* C22                                                                     *)
(***************************************************************************)
\* C22: no call of analizar_denuncia_completa, nor of the methods it calls,
\* changes an attribute of the agent: after any sequence of calls the
\* pattern tables, the category table and the alert thresholds are those
\* of the constructor; and what a call returns does not depend on the
\* calls made before it: it is what a first call with the same argument
\* returns, the moment of the call and the order that list(set(...)) gives
\* apart.
AgenteSinEstado ==
    /\ agente = AgenteConstruido
    /\ resultado # NoLlamada =>
          Comparable(resultado) = Comparable(Llamar(entrada, 0, 0))

\* a call that raised the urgencia_critica alert, then a call on another
\* text, that returned
LlamadaTrasOtraConAlerta ==
    /\ relacion = "otra"
    /\ DevueltoAntes
    /\ "urgencia_critica" \in TiposDeAlerta(resultadoPrevio.valor.alertas)
    /\ Devuelto
    /\ entrada # previa
    /\ resultado.valor.alertas = <<>>

(***************************************************************************)
(* C23                                                                     *)
(***************************************************************************)
\* what C23 compares of a returned dict
ParteComparada(r) ==
    [urgencia |-> r.urgencia, categoria |-> r.categoria, evidencias |-> r.evidencias,
     sentimientos |-> r.sentimientos, alertas |-> r.alertas,
     recomendaciones |-> Elementos(r.recomendaciones)]

\* C23: when several callers run analizar_denuncia_completa on one shared
\* agent at the same time, without locks, then under every interleaving of
\* their statements each caller obtains the urgency, the category, the
\* evidence, the sentiment, the alerts and the set of recommendations that
\* it obtains when it runs alone.
CadaHiloComoSolo ==
    \A h \in Hilos :
        hilos[h].pc = "fin" =>
            /\ hilos[h].resultado.termina = "return"
            /\ "urgencia" \in DOMAIN hilos[h].resultado.valor
            /\ ParteComparada(hilos[h].resultado.valor)
                 = ParteComparada(Llamar(Str(hilos[h].mensaje), 0, 0).valor)

\* two callers with two texts, the second of which entered while the
\* first was in the middle of the body, and returned before it
HiloAdelantaAOtro ==
    /\ hilos["h1"].pc = "recomendaciones"
    /\ hilos["h2"].pc = "fin"
    /\ hilos["h1"].mensaje # hilos["h2"].mensaje
    /\ hilos["h1"].alertas # hilos["h2"].resultado.valor.alertas

(***************************************************************************)
(* C24                                                                     *)
(***************************************************************************)
\* t begins and ends with no whitespace
SinEspaciosAlrededor(t) == t = "" \/ (SubSeq(t, 1, 1) \notin Espacios /\ SubSeq(t, Len(t), Len(t)) \notin Espacios)

\* t is what is left of opcion once the whitespace around it is taken away
EsLaOpcionRecortada(t, opcion) == SinEspaciosAlrededor(t) /\ \E i \in 1..(Len(opcion) + 1), j \in 0..Len(opcion) : /\ i <= j + 1
                                                                                                                  /\ t = SubSeq(opcion, i, j)
                                                                                                                  /\ \A k \in (1..(i - 1)) \cup ((j + 1)..Len(opcion)) : SubSeq(opcion, k, k) \in Espacios

\* C24: validar_opcion_menu returns the option without its surrounding
\* whitespace when that stripped option is in the list of valid options, and
\* None otherwise, whatever the option and the list.
OpcionRecortadaSiEstaEnLaLista ==
    validacion.llamada =>
        \/ /\ validacion.devuelve.tipo = "str"
           /\ EsLaOpcionRecortada(validacion.devuelve.valor, validacion.opcion)
           /\ \E i \in 1..Len(validacion.opciones_validas) : validacion.opciones_validas[i] = validacion.devuelve.valor
        \/ /\ validacion.devuelve = None
           /\ ~\E i \in 1..Len(validacion.opciones_validas) : EsLaOpcionRecortada(validacion.opciones_validas[i], validacion.opcion)

\* an option typed with whitespace on both sides was accepted
ValidadaOpcionConEspaciosAlrededor ==
    /\ validacion.llamada
    /\ validacion.devuelve = Str("1")
    /\ validacion.opcion = " 1 "

(***************************************************************************)
(* C25                                                                     *)
(***************************************************************************)
\* C25: for every non-empty message the local pipeline succeeds: it returns
\* procesamiento_exitoso = True with a clasificacion and a veracidad whose
\* nivel_veracidad is ALTA, MEDIA or BAJA and whose confianza is in [0, 1],
\* adds one to clasificaciones_realizadas and to analisis_realizados and
\* leaves errores_encontrados as it was.
ProcesadoLocalConExito ==
    (procesamiento.llamada /\ procesamiento.mensaje # "") =>
        /\ procesamiento.devuelve.procesamiento_exitoso
        /\ {"clasificacion", "veracidad"} \subseteq DOMAIN procesamiento.devuelve
        /\ procesamiento.devuelve.veracidad.nivel_veracidad \in {"ALTA", "MEDIA", "BAJA"}
        /\ procesamiento.devuelve.veracidad.confianza \in 0..100
        /\ clasificador = [procesamiento.antes EXCEPT !.clasificaciones_realizadas = @ + 1, !.analisis_realizados = @ + 1]

(***************************************************************************)
(* C26                                                                     *)
(***************************************************************************)
\* C26: once cambiar_modo(m) has returned True, and until the mode is set
\* again, a procesar_denuncia call without forzar_modo hands the message to
\* the local classifier when m is "local" and to the OpenAI agent when m is
\* "openai", whatever the length of the message; and a cambiar_modo call
\* that returns False leaves the mode as it was.
AgenteSegunElModoCambiado ==
    /\ (gestion.operacion = "procesar_denuncia" /\ gestion.forzar_modo = "None" /\ gestion.devuelve.modo_procesamiento # "validacion") =>
           /\ gestion.cambiado_a = "local" => gestion.devuelve.agente_usado = "ClasificadorSimplificado"
           /\ gestion.cambiado_a = "openai" => gestion.devuelve.agente_usado = "AgenteOpenAISimplificado"
    /\ (gestion.operacion = "cambiar_modo" /\ gestion.devuelve = FALSE) => gestor.modo = gestion.modo_antes

(***************************************************************************)
(* C27                                                                     *)
(***************************************************************************)
\* the administrator typed a number and confirmed
TecleadoNumeroYConfirmado == cambio.operacion = "_cambiar_estado_individual" /\ cambio.entero.termina = "return" /\ cambio.confirmado

\* C27: in _cambiar_estado_individual, when the administrator types the
\* number printed next to a state and confirms, the estado of the complaint
\* becomes that state, whatever its state was; a number printed next to no
\* state is rejected and the complaint stays as it was.
EstadoElDelNumeroImpreso ==
    TecleadoNumeroYConfirmado =>
        /\ \A k \in 1..Len(cambio.impreso) : cambio.impreso[k].numero = cambio.entero.valor => Get(denuncias[cambio.indice], "estado", "nueva") = cambio.impreso[k].estado
        /\ (\A k \in 1..Len(cambio.impreso) : cambio.impreso[k].numero # cambio.entero.valor) => denuncias[cambio.indice] = cambio.antes

(***************************************************************************)
(* C28                                                                     *)
(***************************************************************************)
\* the attempt answered both prompts with the stored user name and the
\* password whose hash is stored, the whitespace around what was typed set
\* aside as the prompts do
SuministraLasCredenciales(intento, credenciales) == intento.tecleado /\ strip(intento.usuario) = credenciales.usuario /\ _generar_hash(strip(intento.password)) = credenciales.password_hash

RegistradasConExito == SelectSeq(registro.llamadas, LAMBDA llamada : llamada.exito)

\* C29: whenever registrar_denuncia returns exito = False (an empty or
\* whitespace-only message, or a failure writing the file) the list
\* self.denuncias is the same as before the call; so after any sequence of
\* calls the list holds exactly the complaints for which exito = True was
\* returned, in call order.
ListaSoloDeLasRegistradas ==
    /\ (registro.llamada /\ ~registro.devuelve.exito) => denuncias = registro.antes
    /\ Len(denuncias) = Len(RegistradasConExito)
    /\ \A i \in 1..Len(denuncias) : i <= Len(RegistradasConExito) => (denuncias[i].id = RegistradasConExito[i].id /\ denuncias[i].mensaje = strip(RegistradasConExito[i].mensaje))


(***************************************************************************)
(* C30                                                                     *)
(***************************************************************************)

\* the _ejecutar_cambio_estado calls made so far on the complaint at indice
CambiosDe(indice) == SelectSeq(cambio.ejecutados, LAMBDA ejecutado : ejecutado.indice = indice)

HistorialDe(indice) == Get(denuncias[indice], "historial_estados", <<>>)

\* the history of every complaint has one entry per call in call order, its
\* last estado_nuevo is the state of the complaint, and each estado_anterior
\* is the estado_nuevo before it, or the state before the first change,
\* which is 'nueva' for a complaint as registrar_denuncia makes it
HistorialSegunLosCambios ==
    \A indice \in 1..Len(denuncias) :
        /\ Len(HistorialDe(indice)) = Len(CambiosDe(indice))
        /\ \A j \in 1..Len(HistorialDe(indice)) : j <= Len(CambiosDe(indice)) => HistorialDe(indice)[j].estado_nuevo = CambiosDe(indice)[j].nuevo_estado
        /\ Len(HistorialDe(indice)) > 0 => HistorialDe(indice)[Len(HistorialDe(indice))].estado_nuevo = Get(denuncias[indice], "estado", "nueva")
        /\ Len(HistorialDe(indice)) = 0 => Get(denuncias[indice], "estado", "nueva") = "nueva"
        /\ \A j \in 1..Len(HistorialDe(indice)) : HistorialDe(indice)[j].estado_anterior = (IF j = 1 THEN "nueva" ELSE HistorialDe(indice)[j - 1].estado_nuevo)

\* once a state has been changed, the file holds the list as it is now, or
\* was cut short by a write that failed in json.dump
CambiosEscritos == Len(cambio.ejecutados) > 0 => archivo \in {ArchivoCon(denuncias), ArchivoCortado}

\* C30: after any sequence of _ejecutar_cambio_estado calls on a complaint
\* its historial_estados has one entry per call in call order, the
\* estado_nuevo of the last entry is the complaint's current estado, each
\* estado_anterior is the estado_nuevo of the entry before it (or the state
\* before the first change, 'nueva' by default), and each change is written
\* to the complaint store held by the GestorDenuncias.
CambiosEnHistorialYEnAlmacen == HistorialSegunLosCambios /\ CambiosEscritos

====
